---- MODULE Spec2Model ----
(***************************************************************************)
(* State-machine model of the SentinelOps pipeline core:                   *)
(*   runtime/state.py   RuntimeState (in-flight stages, trace timestamps)  *)
(*   runtime/watchdog.py Watchdog (SLO breach detection with debounce)     *)
(*   audit/buffer.py    AuditBuffer (bounded log, recent, kpi)             *)
(*   agents/thinker.py  ThinkerAgent (trigger, cooldown, degradation)      *)
(*   agents/doer.py     DoerAgent (enrichment, dedup, dispatch)            *)
(*                                                                         *)
(* Time is counted in ticks; TicksPerMs ticks make one millisecond, so     *)
(* that the truncation done by int((a - b) * 1000) is visible.             *)
(***************************************************************************)
EXTENDS Integers, Sequences, FiniteSets, TLC

VARIABLES
    now,        \* time.time(), in ticks
    inflight,   \* RuntimeState.inflight: insertion-ordered dict, as a sequence of entries
    ts,         \* RuntimeState.ts: trace_id -> TraceTimestamps (or Absent)
    op,         \* the last operation called, with its arguments
    ret,        \* the value that operation returned
    events,     \* AuditBuffer._events: the deque of audit records
    next_id,    \* the uuid4 of the next audit record (each one is fresh)
    added,      \* history: every record passed to AuditBuffer.add, in order
    fired,      \* Watchdog._fired: key -> time of the last breach (0 when missing)
    next_tick,  \* the time at which the watchdog loop wakes up next
    last_tick,  \* history: the time of the watchdog's latest tick
    flights,    \* history: per key, the start and end of its latest flight
    q,          \* Bus._q: topic name -> FIFO queue of messages
    last_emit,  \* ThinkerAgent._last_emit: dedup key -> time (0 when missing)
    doer_last,  \* DoerAgent._last: dedup key -> time (0 when missing)
    use_gemini, \* cfg.use_gemini: FALSE is stub mode (self.model is None)
    gameday_force,  \* cfg.gameday_force
    simulated_down, \* DispatcherTool.simulated_down
    runs,       \* history: per trace, what the Thinker and the Doer did with it
    gameday_enabled, \* cfg.gameday_enabled
    scenario,   \* GameDayController._scenario
    since,      \* GameDayController._since
    pub,        \* history: topic -> every message published to it, in order
    got,        \* history: topic -> every message consume returned, in order
    alive,      \* stage -> is the thread of its run loop still running
    caught,     \* history: stage -> number of exceptions its run loop caught
    stop_set,   \* the threading.Event stop signals that are set
    exited,     \* the threads that left their run function
    thr,        \* thread -> the call it is in: position and local variables
    lock,       \* lock name -> the thread holding it, or "free"
    hist        \* history: the calls on shared objects, in the order they took effect

stateVars == <<inflight, ts, op, ret>>
auditVars == <<events, next_id, added>>
wdVars == <<fired, next_tick, last_tick, flights>>
pipeVars == <<q, last_emit, doer_last, use_gemini, gameday_force, simulated_down, runs>>
ctlVars == <<gameday_enabled, scenario, since>>
busVars == <<pub, got>>
loopVars == <<alive, caught>>
thrVars == <<stop_set, exited, thr, lock, hist>>
extVars == <<ctlVars, busVars, loopVars, thrVars>>
vars == <<now, stateVars, auditVars, wdVars, pipeVars, extVars>>

(***************************************************************************)
(* Bounds of the model                                                     *)
(***************************************************************************)
TicksPerMs == 2
StartTime == 100000
MaxMarkTicks == 3
MaxStageTicks == 2
max_events == 3
MaxAdds == 5
MaxAuditTicks == 1
WdStepMs == 125
WdJitterMs == 125
WdBeginWindowMs == 250
WdMaxMs == 33000
WdShortMs == 1500
PipeStepMs == 6000
PipeMaxMs == 6000
CoolStepMs == 2000
CoolMaxMs == 6000
MaxGdCalls == 3
MaxGdTicks == 1
MaxPublishes == 4
MaxRecentAdds == 4
TkBeginWindowMs == 250
TkMaxMs == 2000
MaxOutageCalls == 2
MaxStateCalls == 3
MaxStateTicks == 2
MaxBufTicks == 1
MaxKpiCalls == 1
DedupStepMs == 10000
DedupMaxMs == 20000
MaxGateCalls == 3
MaxMilestoneTicks == 3
MaxStarts == 2
MaxLoopClips == 2
MaxScenarioCalls == 2
SlowBeginWindowMs == 250
SlowMaxMs == 3500

\* Python's None, and a present value, as records (Optional[...])
None == [some |-> FALSE]
Some(x) == [some |-> TRUE, val |-> x]

\* a key missing from a dict
Absent == [absent |-> TRUE]

Traces == {"t1", "t2", "t3"}
MarkTraces == {"t1", "t2"}

(***************************************************************************)
(* Strings that the code converts are sequences of one-character strings.  *)
(***************************************************************************)
UpperAlpha == <<"A","B","C","D","E","F","G","H","I","J","K","L","M",
                "N","O","P","Q","R","S","T","U","V","W","X","Y","Z">>
LowerAlpha == <<"a","b","c","d","e","f","g","h","i","j","k","l","m",
                "n","o","p","q","r","s","t","u","v","w","x","y","z">>
Whitespace == {" ", "\t", "\n"}

LowerTable == [c \in {UpperAlpha[i] : i \in 1..Len(UpperAlpha)} |->
                  LowerAlpha[CHOOSE i \in 1..Len(UpperAlpha) : UpperAlpha[i] = c]]
UpperTable == [c \in {LowerAlpha[i] : i \in 1..Len(LowerAlpha)} |->
                  UpperAlpha[CHOOSE i \in 1..Len(LowerAlpha) : LowerAlpha[i] = c]]

\* str.lower(), str.upper()
Lower(s) == [i \in 1..Len(s) |-> IF s[i] \in DOMAIN LowerTable THEN LowerTable[s[i]] ELSE s[i]]
Upper(s) == [i \in 1..Len(s) |-> IF s[i] \in DOMAIN UpperTable THEN UpperTable[s[i]] ELSE s[i]]

\* str.replace(old, new) for one-character old and new
Replace(s, old, new) == [i \in 1..Len(s) |-> IF s[i] = old THEN new ELSE s[i]]

\* str.strip()
RECURSIVE LStrip(_)
LStrip(s) == IF s # <<>> /\ Head(s) \in Whitespace THEN LStrip(Tail(s)) ELSE s
RECURSIVE RStrip(_)
RStrip(s) ==
    IF s # <<>> /\ s[Len(s)] \in Whitespace THEN RStrip(SubSeq(s, 1, Len(s) - 1)) ELSE s
Strip(s) == RStrip(LStrip(s))

STOP_LINE == <<"s","t","o","p","_","l","i","n","e">>
ALERT == <<"a","l","e","r","t">>
P1 == <<"P","1">>
P2 == <<"P","2">>
P3 == <<"P","3">>
SENT == <<"s","e","n","t">>
FAILED == <<"f","a","i","l","e","d">>
SKIPPED == <<"s","k","i","p","p","e","d">>
EmptyStr == <<>>

\* the seconds-to-milliseconds conversions int(x * 1000) of the source
\* truncate toward zero
TruncMs(d) == IF d >= 0 THEN d \div TicksPerMs ELSE -((-d) \div TicksPerMs)

Ms(n) == n * TicksPerMs

(***************************************************************************)
(* runtime/state.py                                                        *)
(***************************************************************************)
StageNames == {"observer", "thinker", "doer", "dispatcher"}

\* key = f"{trace_id}:{stage}"; trace ids are uuid4 strings and stage names
\* contain no colon, so the key determines the pair
StageKey(trace_id, stage) == <<trace_id, stage>>

StageInFlight(trace_id, stage, clip_index, start) ==
    [key |-> StageKey(trace_id, stage), start_ts |-> start, stage |-> stage,
     trace_id |-> trace_id, clip_index |-> clip_index]

TraceTimestamps == [clip_ts |-> None, obs_ts |-> None, dec_ts |-> None, act_ts |-> None]

InflightKeys(inf) == {inf[i].key : i \in 1..Len(inf)}

\* self.inflight[key] = StageInFlight(...): a dict assignment replaces the
\* value of a key already present (keeping its position), else appends
DictSetAppend(inf, e) == Append(inf, e)
DictSet(inf, e) ==
    IF e.key \in InflightKeys(inf)
    THEN [i \in 1..Len(inf) |-> IF inf[i].key = e.key THEN e ELSE inf[i]]
    ELSE Append(inf, e)

\* self.inflight.pop(key, None): the dict without the key
DictPop(inf, key) == SelectSeq(inf, LAMBDA e : e.key # key)

\* self.inflight.pop(key, None): the value popped
DictGet(inf, key) ==
    IF key \in InflightKeys(inf)
    THEN Some(CHOOSE e \in {inf[i] : i \in 1..Len(inf)} : e.key = key)
    ELSE None

begin_stage(trace_id, stage, clip_index) ==
    /\ inflight' = DictSet(inflight, StageInFlight(trace_id, stage, clip_index, now))
    /\ op' = [name |-> "begin_stage", key |-> StageKey(trace_id, stage)]
    /\ ret' = Some(StageKey(trace_id, stage))

end_stage(key) ==
    /\ inflight' = DictPop(inflight, key)
    /\ op' = [name |-> "end_stage", key |-> key]
    /\ ret' = DictGet(inflight, key)

\* the if/elif chain of mark: an unknown kind sets no field
Marked(t, kind, at) ==
    IF kind = "clip" THEN [t EXCEPT !.clip_ts = Some(at)]
    ELSE IF kind = "observation" THEN [t EXCEPT !.obs_ts = Some(at)]
    ELSE IF kind = "decision" THEN [t EXCEPT !.dec_ts = Some(at)]
    ELSE IF kind = "action" THEN [t EXCEPT !.act_ts = Some(at)]
    ELSE t

mark(trace_id, kind) ==
    LET t == IF ts[trace_id] = Absent THEN TraceTimestamps ELSE ts[trace_id]
    IN  /\ ts' = [ts EXCEPT ![trace_id] = Marked(t, kind, now)]
        /\ op' = [name |-> "mark", trace_id |-> trace_id, kind |-> kind]
        /\ ret' = None

e2e_floor_ms(tsmap, trace_id) ==
    LET t == tsmap[trace_id]
    IN  IF t = Absent THEN None
        ELSE IF t.clip_ts = None \/ t.dec_ts = None THEN None
        ELSE Some((t.dec_ts.val - t.clip_ts.val) \div TicksPerMs)
e2e_decision_latency_ms(tsmap, trace_id) ==
    LET t == tsmap[trace_id]
    IN  IF t = Absent THEN None
        ELSE IF t.clip_ts = None \/ t.dec_ts = None THEN None
        ELSE Some(TruncMs(t.dec_ts.val - t.clip_ts.val))

(***************************************************************************)
(* audit/buffer.py                                                         *)
(***************************************************************************)
AuditKind == {"clip", "observation", "decision", "action", "chat", "tool_call",
              "tool_error", "stage", "stage_timeout", "security", "health"}

\* an action dict (type, priority, target, message); a payload without an
\* "action" reads as an action whose fields are all ""
Action(type, priority, target, message) ==
    [type |-> type, priority |-> priority, target |-> target, message |-> message]
NoAction == Action(EmptyStr, EmptyStr, "", "")

\* the payload of an audit record: the keys the code reads back
Payload(event, status, action) == [event |-> event, status |-> status, action |-> action]

AuditEvent(eid, at, kind, trace_id, payload) ==
    [audit_id |-> eid, ts |-> at, kind |-> kind, trace_id |-> trace_id, payload |-> payload]

\* deque(maxlen=max_events).append: a full deque drops its oldest item
DequeAppendUnbounded(dq, x) == Append(dq, x)
DequeAppend(dq, x) ==
    IF max_events = 0 THEN <<>>
    ELSE IF Len(dq) >= max_events THEN Append(Tail(dq), x)
    ELSE Append(dq, x)

\* AuditBuffer.add, on a buffer and id counter: the new buffer
AddTo(evs, eid, kind, trace_id, payload) ==
    DequeAppend(evs, AuditEvent(eid, now, kind, trace_id, payload))

\* several adds made by one handler, in order: recs is a sequence of
\* <<kind, trace_id, payload>>
RECURSIVE AddAll(_, _, _)
AddAll(evs, eid, recs) ==
    IF recs = <<>> THEN evs
    ELSE AddAll(AddTo(evs, eid, recs[1][1], recs[1][2], recs[1][3]), eid + 1, Tail(recs))

RecordsFrom(eid, recs) ==
    [i \in 1..Len(recs) |-> AuditEvent(eid + i - 1, now, recs[i][1], recs[i][2], recs[i][3])]

add(kind, trace_id, payload) ==
    /\ events' = AddTo(events, next_id, kind, trace_id, payload)
    /\ next_id' = next_id + 1
    /\ added' = Append(added, AuditEvent(next_id, now, kind, trace_id, payload))

add_all(recs) ==
    /\ events' = AddAll(events, next_id, recs)
    /\ next_id' = next_id + Len(recs)
    /\ added' = added \o RecordsFrom(next_id, recs)

Max(a, b) == IF a >= b THEN a ELSE b
Min(a, b) == IF a <= b THEN a ELSE b

Reversed(s) == [i \in 1..Len(s) |-> s[Len(s) - i + 1]]

\* list(self._events)[-lim:]
LastItems(items, lim) == SubSeq(items, Max(1, Len(items) - lim + 1), Len(items))

recent(evs, limit) ==
    LET lim == Max(1, limit)
    IN  Reversed(LastItems(evs, lim))

OfKind(items, kind) == SelectSeq(items, LAMBDA x : x.kind = kind)

\* the status counters of kpi(): the if/elif chain over the lowered status
StatusCount(actions, status) ==
    Cardinality({i \in 1..Len(actions) : Lower(actions[i].payload.status) = status})
SkippedCountDropped(actions) == 0
SkippedCount(actions) == StatusCount(actions, SKIPPED)

\* the type and priority counters of kpi()
TypeCount(actions, t) ==
    Cardinality({i \in 1..Len(actions) : Lower(actions[i].payload.action.type) = t})
PriorityCount(actions, pr) ==
    Cardinality({i \in 1..Len(actions) : Upper(actions[i].payload.action.priority) = pr})

LastStopTs(actions) ==
    LET stops == SelectSeq(actions, LAMBDA a : Lower(a.payload.action.type) = STOP_LINE)
    IN  IF stops = <<>> THEN None ELSE Some(stops[Len(stops)].ts)

kpi(evs) ==
    LET items == evs
        actions == OfKind(items, "action")
    IN  [stop_line |-> TypeCount(actions, STOP_LINE),
         alert |-> TypeCount(actions, ALERT),
         decisions |-> Len(OfKind(items, "decision")),
         observations |-> Len(OfKind(items, "observation")),
         actions |-> Len(actions),
         action_sent |-> StatusCount(actions, SENT),
         action_failed |-> StatusCount(actions, FAILED),
         action_skipped |-> SkippedCount(actions),
         last_stop_line_ts |-> LastStopTs(actions),
         priorities |-> [P1 |-> PriorityCount(actions, P1),
                         P2 |-> PriorityCount(actions, P2),
                         P3 |-> PriorityCount(actions, P3)],
         tool_errors |-> Len(OfKind(items, "tool_error")),
         stage_timeouts |-> Len(OfKind(items, "stage_timeout")),
         security_events |-> Len(OfKind(items, "security"))]

(***************************************************************************)
(* tools/base.py, and the helpers of agents/thinker.py and agents/doer.py  *)
(***************************************************************************)
\* the SLO settings of config/settings.py (load_settings defaults)
slo_observer_ms == 2500
slo_thinker_ms == 2000
slo_doer_ms == 1500
slo_dispatcher_ms == 1200

\* A value read from parsed JSON or from a dict: a string (a sequence of
\* characters), or something that is not a string, or nothing (key missing)
Str(s) == [tag |-> "str", s |-> s]
Missing == [tag |-> "missing", s |-> <<>>]
NonStr == [tag |-> "nonstr", s |-> <<>>]

\* str(a.get(key, default)) for a string default: str() of a value that is
\* not a string (None, a number, a list) is its repr, which is none of the
\* recognised words; "<obj>" stands for it
ReprOfNonStr == <<"<","o","b","j",">">>
StrGet(v, default) ==
    CASE v.tag = "str" -> v.s
      [] v.tag = "missing" -> default
      [] v.tag = "nonstr" -> ReprOfNonStr

StopWords == {<<"s","t","o","p">>, <<"s","t","o","p","l","i","n","e">>, STOP_LINE,
              <<"h","a","l","t">>, <<"s","h","u","t","d","o","w","n">>}
AlertWords == {ALERT, <<"w","a","r","n">>, <<"n","o","t","i","f","y">>}

\* _canonical_action_type (the same function in thinker.py and doer.py)
_canonical_action_type(t) ==
    LET s == Replace(Replace(Lower(Strip(t)), "-", "_"), " ", "_")
    IN  IF s \in StopWords THEN STOP_LINE
        ELSE IF s \in AlertWords THEN ALERT
        ELSE IF s # <<>> THEN s ELSE ALERT

\* _canonical_priority (the same function in thinker.py and doer.py)
_canonical_priority(p) ==
    LET s == Upper(Strip(p))
    IN  IF s \in {P1, P2, P3} THEN s
        ELSE IF s \in {<<"1">>, <<"2">>, <<"3">>} THEN <<"P">> \o s
        ELSE P2

\* messages are opaque texts; or_default is `text or default`
MsgOr(m, default) == IF m = "" THEN default ELSE m

\* (the dash and the arrow of the two texts are written in ASCII)
GroundingMessage == "Potential high-risk event detected; policy grounding unavailable - alert supervisor to verify before stopping line."
FallbackSuffix == " (Dispatcher down -> fallback)"

\* a raw action dict of a model's JSON output: every key may be missing
RawAction(type, priority, target, message) ==
    [type |-> type, priority |-> priority, target |-> target, message |-> message]

\* _normalize_actions: raw is the list under "recommended_actions" (a
\* sequence of dicts); the result keeps the first action only
_normalize_actions(raw) ==
    LET norm(a) == Action(_canonical_action_type(StrGet(a.type, EmptyStr)),
                          _canonical_priority(StrGet(a.priority, EmptyStr)),
                          MsgOr(a.target, "console"),
                          MsgOr(a.message, "Action recommended."))
        out == [i \in 1..Len(raw) |-> norm(raw[i])]
    IN  SubSeq(out, 1, Min(1, Len(out)))

\* _yn: only a string that strips and lowers to yes, no or uncertain counts
YES == <<"y","e","s">>
NO == <<"n","o">>
UNCERTAIN == <<"u","n","c","e","r","t","a","i","n">>
YnNonStrYes(v) ==
    IF v.tag = "str" /\ Lower(Strip(v.s)) \in {YES, NO, UNCERTAIN}
    THEN Lower(Strip(v.s))
    ELSE IF v.tag = "nonstr" THEN YES ELSE UNCERTAIN
_yn(v) ==
    IF v.tag = "str" /\ Lower(Strip(v.s)) \in {YES, NO, UNCERTAIN}
    THEN Lower(Strip(v.s))
    ELSE UNCERTAIN

\* ThinkerAgent._should_trigger: <<trigger, rule>>
_should_trigger(sig) ==
    LET walkway == _yn(sig.walkway_violation) = YES
        restricted == _yn(sig.restricted_area_entry) = YES
        prox == _yn(sig.unsafe_proximity_to_machine) = YES
        machine == _yn(sig.machine_operating) = YES
        panel == _yn(sig.panel_open) = YES
        guard == _yn(sig.guard_open) = YES
    IN  IF panel /\ machine THEN <<TRUE, "panel_open_while_operating">>
        ELSE IF guard /\ machine THEN <<TRUE, "guard_open_while_operating">>
        ELSE IF prox /\ machine THEN <<TRUE, "unsafe_proximity_while_operating">>
        ELSE IF restricted THEN <<TRUE, "restricted_area_entry">>
        ELSE IF walkway THEN <<TRUE, "walkway_violation">>
        ELSE <<FALSE, "">>

\* call_tool: the call returned data or raised, elapsed ticks after it was
\* made; lat = int((time.time() - t0) * 1000); the result is a ToolResult
ToolResult(ok, data, error_type, latency_ms) ==
    [ok |-> ok, data |-> data, error_type |-> error_type, latency_ms |-> latency_ms]
CallToolNoBudget(raised, data, elapsed, timeout_ms) ==
    IF raised THEN ToolResult(FALSE, None, "dependency", TruncMs(elapsed))
    ELSE ToolResult(TRUE, Some(data), "", TruncMs(elapsed))
call_tool(raised, data, elapsed, timeout_ms) ==
    LET lat == TruncMs(elapsed)
    IN  IF raised THEN ToolResult(FALSE, None, "dependency", lat)
        ELSE IF lat > timeout_ms THEN ToolResult(FALSE, None, "timeout", lat)
        ELSE ToolResult(TRUE, Some(data), "", lat)

(***************************************************************************)
(* bus/bus.py: Bus                                                         *)
(***************************************************************************)
Topics == {"clips", "observations", "decisions", "actions"}

\* the stage threads main() starts on the bus
Stages == {"observer", "thinker", "doer"}

\* the threads main() and ClipProducer.start() start, and a thread of the
\* web server calling into the shared objects
Threads == Stages \cup {"watchdog", "heartbeat", "pipeline_metrics", "janitor", "producer", "web"}

\* RuntimeState._lock and AuditBuffer._lock
Locks == {"state", "audit"}

\* a thread that is in no call
Idle == [pc |-> "idle"]

\* no stop signal set, every thread running and in no call
InitThreads ==
    /\ stop_set = {}
    /\ exited = {}
    /\ thr = [th \in Threads |-> Idle]
    /\ lock = [l \in Locks |-> "free"]
    /\ hist = <<>>

\* queue.Queue.put, and get: the item at the head and the queue without it
QueuePutFront(qs, msg) == <<msg>> \o qs
QueuePut(qs, msg) == Append(qs, msg)
QueueHead(qs) == Head(qs)
QueueRest(qs) == Tail(qs)

publish(topic, msg) ==
    /\ q' = [q EXCEPT ![topic] = QueuePut(@, msg)]
    /\ pub' = [pub EXCEPT ![topic] = Append(@, msg)]

\* consume: None after the timeout on an empty queue (queue.Empty)
consume(topic) ==
    IF q[topic] = <<>>
    THEN /\ ret' = None
         /\ UNCHANGED <<q, got>>
    ELSE /\ ret' = Some(QueueHead(q[topic]))
         /\ q' = [q EXCEPT ![topic] = QueueRest(@)]
         /\ got' = [got EXCEPT ![topic] = Append(@, QueueHead(q[topic]))]

(***************************************************************************)
(* agents/thinker.py: ThinkerAgent                                         *)
(***************************************************************************)
\* the producer's only camera
Cameras == {"cam-security-1"}
Rules == {"panel_open_while_operating", "guard_open_while_operating",
          "unsafe_proximity_while_operating", "restricted_area_entry",
          "walkway_violation"}

\* dedup_key = f"{obs.camera_id}:{rule}"
ThinkerKey(camera_id, rule) == <<camera_id, rule>>
ThinkerKeys == {ThinkerKey(c, r) : c \in Cameras, r \in Rules}

cooldown_s == 4
slo_pipeline_e2e_ms == 5000

\* _cooldown_ok: does the key pass, and the _last_emit map afterwards
CooldownNever(le, key, at) == TRUE
_cooldown_ok(le, key, at) == ~(at - le[key] < Ms(cooldown_s * 1000))
LastEmitRefresh(le, key, at) == [le EXCEPT ![key] = at]
LastEmitAfter(le, key, at) == IF _cooldown_ok(le, key, at) THEN [le EXCEPT ![key] = at] ELSE le

\* the lookup call of the Thinker: call_tool("sop_lookup", ..., timeout_ms=700)
sop_timeout_ms == 700
SopLookup(lookup) == call_tool(lookup.raised, [hits |-> lookup.hits], Ms(lookup.lat_ms), sop_timeout_ms)

\* the citations built from the hits of a successful lookup: hits[:3]
Citations(tool_res) == IF tool_res.ok THEN Min(3, tool_res.data.val.hits) ELSE 0

\* the fallback of _parse_json_soft, and the stub-mode decision
ParseFallback == [violation |-> FALSE, rule_id |-> "other", severity |-> Str(<<"l","o","w">>), actions |-> <<>>]
StubOut(rule) ==
    [violation |-> TRUE, rule_id |-> rule, severity |-> Str(<<"m","e","d","i","u","m">>),
     actions |-> <<RawAction(Str(ALERT), Str(P2), "console", "Investigate: " \o rule)>>]

\* out of the model call: llm.parses says whether its text is JSON
\* (_parse_json_soft returns the fallback dict when it is not)
ThinkerOutStubOnFail(rule, llm) ==
    IF ~use_gemini THEN StubOut(rule)
    ELSE IF llm.parses THEN llm.out ELSE StubOut(rule)
ThinkerOut(rule, llm) ==
    IF ~use_gemini THEN StubOut(rule)
    ELSE IF llm.parses THEN llm.out ELSE ParseFallback

\* the degradation of an ungrounded stop_line (thinker.py lines 304-308)
DegradeNever(grounding_ok, a) == a
Degrade(grounding_ok, a) ==
    IF ~grounding_ok /\ a.type = STOP_LINE
    THEN [a EXCEPT !.type = ALERT, !.priority = P1, !.message = GroundingMessage]
    ELSE a

DecisionEvent(obs, rule, out, action, ncit) ==
    [trace_id |-> obs.trace_id, camera_id |-> obs.camera_id, clip_index |-> obs.clip_index,
     violation |-> TRUE,
     rule_id |-> MsgOr(out.rule_id, rule),
     severity |-> StrGet(IF out.severity.tag = "str" /\ out.severity.s = <<>> THEN Missing ELSE out.severity,
                         <<"m","e","d","i","u","m">>),
     recommended_actions |-> <<action>>,
     citations |-> ncit]

Rec(kind, trace_id, event) == <<kind, trace_id, Payload(event, EmptyStr, NoAction)>>

\* what handle_observation does after the cooldown gate, for one lookup
\* outcome and one model outcome: the audit records it emits, the decision
\* it publishes (or None) and the state it leaves
ThinkerRun(obs, rule, lookup, llm) ==
    LET tool_res == SopLookup(lookup)
        ncit == Citations(tool_res)
        raises == use_gemini /\ llm.raises
        out == ThinkerOut(rule, llm)
        actions == _normalize_actions(out.actions)
        decides == ~raises /\ out.violation /\ actions # <<>>
        grounding_ok == tool_res.ok /\ ncit > 0
        rec == IF actions = <<>> THEN NoAction ELSE actions[1]
        action == Degrade(grounding_ok, rec)
        degraded == ~grounding_ok /\ rec.type = STOP_LINE
        decision == DecisionEvent(obs, rule, out, action, ncit)
        t0 == IF ts[obs.trace_id] = Absent THEN TraceTimestamps ELSE ts[obs.trace_id]
        ts1 == IF decides THEN [ts EXCEPT ![obs.trace_id] = Marked(t0, "decision", now)] ELSE ts
        e2e == IF decides THEN e2e_decision_latency_ms(ts1, obs.trace_id) ELSE None
        recs ==
            <<Rec("stage", obs.trace_id, "stage_start"), Rec("tool_call", obs.trace_id, "tool_call")>>
            \o (IF tool_res.ok THEN <<>> ELSE <<Rec("tool_error", obs.trace_id, "tool_error")>>)
            \o (IF raises THEN <<Rec("tool_error", obs.trace_id, "thinker_exception")>> ELSE <<>>)
            \o (IF use_gemini /\ ~raises THEN <<Rec("health", obs.trace_id, "llm_call")>> ELSE <<>>)
            \o (IF decides /\ degraded THEN <<Rec("health", obs.trace_id, "degradation")>> ELSE <<>>)
            \o (IF decides
                THEN <<<<"decision", obs.trace_id,
                         [event |-> "", status |-> EmptyStr, action |-> NoAction, decision |-> decision]>>>>
                ELSE <<>>)
            \o (IF e2e # None THEN <<Rec("health", obs.trace_id, "e2e_decision_latency")>> ELSE <<>>)
            \o (IF e2e # None /\ e2e.val > slo_pipeline_e2e_ms
                THEN <<Rec("stage_timeout", obs.trace_id, "e2e_slo_breach")>> ELSE <<>>)
            \o <<Rec("stage", obs.trace_id, "stage_end")>>
    IN  [recs |-> recs, decides |-> decides, decision |-> decision, ts |-> ts1,
         raises |-> raises, lookup_ok |-> tool_res.ok, ncit |-> ncit, rec |-> rec,
         unparsed |-> use_gemini /\ ~llm.raises /\ ~llm.parses]

NoRun == [thinker |-> "none", at |-> 0, key |-> <<"", "">>, lookup_ok |-> FALSE, ncit |-> 0,
          rec |-> NoAction, degraded |-> FALSE, decided |-> NoAction,
          doer |-> "none", enrich |-> NoAction, final |-> NoAction,
          dispatch |-> "none", doer_recs |-> <<>>, unparsed |-> FALSE,
          thinker_recs |-> <<>>, doer_at |-> 0, doer_key |-> <<"", "", "">>]

\* handle_observation(msg), for the message at the head of the
\* observations topic (run() consumes it and calls the handler)
handle_observation(obs, lookup, llm) ==
    LET trig == _should_trigger(obs.signals)
        rule == trig[2]
        key == ThinkerKey(obs.camera_id, rule)
        stage_key == StageKey(obs.trace_id, "thinker")
    IN  IF ~trig[1] THEN
            /\ runs' = [runs EXCEPT ![obs.trace_id].thinker = "not_triggered", ![obs.trace_id].at = now]
            /\ q' = [q EXCEPT !.observations = Tail(@)]
            /\ UNCHANGED <<last_emit, inflight, ts, events, next_id>>
        ELSE IF ~_cooldown_ok(last_emit, key, now) THEN
            /\ runs' = [runs EXCEPT ![obs.trace_id].thinker = "suppressed", ![obs.trace_id].at = now,
                                    ![obs.trace_id].key = key]
            /\ q' = [q EXCEPT !.observations = Tail(@)]
            /\ UNCHANGED <<last_emit, inflight, ts, events, next_id>>
        ELSE
            \E r \in {ThinkerRun(obs, rule, lookup, llm)} :
                /\ last_emit' = LastEmitAfter(last_emit, key, now)
                /\ inflight' = DictPop(DictSet(inflight,
                                   StageInFlight(obs.trace_id, "thinker", obs.clip_index, now)), stage_key)
                /\ ts' = r.ts
                /\ events' = AddAll(events, next_id, r.recs)
                /\ next_id' = next_id + Len(r.recs)
                /\ q' = [q EXCEPT !.observations = Tail(@),
                                  !.decisions = IF r.decides THEN Append(@, r.decision) ELSE @]
                /\ runs' = [runs EXCEPT ![obs.trace_id] =
                              [@ EXCEPT !.thinker = IF r.decides THEN "published"
                                                    ELSE IF r.raises THEN "error" ELSE "no_decision",
                                        !.at = now, !.key = key, !.lookup_ok = r.lookup_ok,
                                        !.ncit = r.ncit, !.rec = r.rec, !.unparsed = r.unparsed,
                                        !.thinker_recs = r.recs,
                                        !.degraded = \E i \in 1..Len(r.recs) :
                                                        /\ r.recs[i][1] = "health"
                                                        /\ r.recs[i][3].event = "degradation",
                                        !.decided = IF r.decides THEN r.decision.recommended_actions[1]
                                                    ELSE NoAction]]

(***************************************************************************)
(* gameday/controller.py: GameDayController                                *)
(***************************************************************************)
VALID_SCENARIOS == {"none", "dispatcher_outage", "long_running_observer", "injection"}

\* if scenario not in VALID_SCENARIOS: scenario = "none" (an exact,
\* case-sensitive membership test)
KeepScenario(s) == s
ValidOrNone(s) == IF s \in VALID_SCENARIOS THEN s ELSE "none"

\* __init__: cfg.gameday_scenario if cfg.gameday_enabled else "none", then
\* the validity test
ConfiguredScenario(enabled, configured) == configured
InitialScenario(enabled, configured) ==
    ValidOrNone(IF enabled THEN configured ELSE "none")

set_scenario(s) ==
    /\ scenario' = ValidOrNone(s)
    /\ since' = now
    /\ add("health", "gameday",
           [event |-> "scenario_set", status |-> EmptyStr, action |-> NoAction,
            scenario |-> ValidOrNone(s)])

reset == set_scenario("none")

ActiveStored(x) == scenario = x
active(x) == IF ~gameday_enabled THEN FALSE ELSE scenario = x

(***************************************************************************)
(* agents/doer.py: DoerAgent                                               *)
(***************************************************************************)
\* a dict as a function on the keys present: {} and dict.get(key, 0.0)
EmptyDict == [k \in {} |-> 0]
DictGetOr0(d, key) == IF key \in DOMAIN d THEN d[key] ELSE 0
DictPut(d, key, v) == [k \in DOMAIN d \cup {key} |-> IF k = key THEN v ELSE d[k]]

\* dedup_key = f"{dec.camera_id}:{sev}:{a_type}"
DoerKey(camera_id, sev, a_type) == <<camera_id, sev, a_type>>

dedup_cooldown_s == 20

\* _dedup: does the key pass, and the _last map afterwards
DedupAlways(dl, key, at) == TRUE
_dedup(dl, key, at) == ~(at - DictGetOr0(dl, key) < Ms(dedup_cooldown_s * 1000))
DoerLastAfter(dl, key, at) == IF _dedup(dl, key, at) THEN DictPut(dl, key, at) ELSE dl

\* base of _enrich_actions: the decision's first action, canonicalised again
EnrichBase(dec) ==
    LET a == dec.recommended_actions[1]
    IN  Action(_canonical_action_type(a.type), _canonical_priority(a.priority),
               MsgOr(a.target, "console"), a.message)

\* the action _enrich_actions returns when the model gave a usable action a
\* (a raw dict; all keys missing when actions[0] is not a dict)
EnrichedKeepType(base, a) ==
    Action(_canonical_action_type(StrGet(a.type, base.type)),
           _canonical_priority(StrGet(a.priority, base.priority)),
           MsgOr(a.target, "console"), MsgOr(a.message, base.message))
Enriched(base, a) ==
    LET e == Action(_canonical_action_type(StrGet(a.type, base.type)),
                    _canonical_priority(StrGet(a.priority, base.priority)),
                    MsgOr(a.target, "console"), MsgOr(a.message, base.message))
    IN  IF e.type # base.type THEN [e EXCEPT !.type = base.type] ELSE e

\* _enrich_actions: stub mode and an empty or unparsed model answer give the
\* base action back
_enrich_actions(dec, llm) ==
    LET base == EnrichBase(dec)
        acts == IF llm.parses THEN llm.actions ELSE <<>>
    IN  IF ~use_gemini THEN base
        ELSE IF acts = <<>> THEN base
        ELSE Enriched(base, acts[1])

ActionEvent(dec, action, status, provider) ==
    [trace_id |-> dec.trace_id, decision_id |-> dec.trace_id, camera_id |-> dec.camera_id,
     action |-> action, status |-> status, provider |-> provider]

ActionRec(evt, status) == <<"action", evt.trace_id, Payload("", status, evt.action)>>

\* the action of the failed ActionEvent: {**a, "target": "pager", "message": ...}
FallbackKeepTarget(a) == a
Fallback(a) == [a EXCEPT !.target = "pager", !.message = a.message \o FallbackSuffix]

\* if self.gameday.active("dispatcher_outage") and self.cfg.gameday_force:
\* the mode handle_decision sets on the tool before anything else
DispatcherDownKept == simulated_down
DispatcherDown == active("dispatcher_outage") /\ gameday_force

\* what handle_decision does for one model outcome and one delivery latency
DoerRun(dec, llm, lat_ms) ==
    LET sev == Lower(dec.severity)
        raises == use_gemini /\ llm.raises
        a == _enrich_actions(dec, llm)
        a_type == _canonical_action_type(a.type)
        key == DoerKey(dec.camera_id, sev, a_type)
        passes == _dedup(doer_last, key, now)
        tool_res == call_tool(DispatcherDown, [delivered |-> TRUE], Ms(lat_ms), slo_dispatcher_ms)
        evt == IF ~passes THEN ActionEvent(dec, a, SKIPPED, "dedup")
               ELSE IF tool_res.ok THEN ActionEvent(dec, a, SENT, "dispatcher")
               ELSE ActionEvent(dec, Fallback(a), FAILED, "dispatcher")
        recs ==
            <<Rec("stage", dec.trace_id, "stage_start")>>
            \o (IF raises THEN <<Rec("tool_error", dec.trace_id, "doer_exception")>>
                ELSE (IF use_gemini THEN <<Rec("health", dec.trace_id, "llm_call")>> ELSE <<>>)
                  \o (IF passes THEN <<Rec("stage", dec.trace_id, "stage_start")>> ELSE <<>>)
                  \o (IF passes /\ ~tool_res.ok
                      THEN <<Rec("tool_error", dec.trace_id, "dispatcher_failed")>> ELSE <<>>)
                  \o <<ActionRec(evt, evt.status)>>)
            \o <<Rec("stage", dec.trace_id, "stage_end")>>
    IN  [recs |-> recs, raises |-> raises, evt |-> evt, key |-> key, passes |-> passes, enriched |-> a,
         tool_res |-> tool_res]

\* handle_decision(msg), for the message at the head of the decisions topic
handle_decision(dec, llm, lat_ms) ==
    \E r \in {DoerRun(dec, llm, lat_ms)} :
        /\ simulated_down' = DispatcherDown
        /\ doer_last' = IF r.raises THEN doer_last ELSE DoerLastAfter(doer_last, r.key, now)
        /\ inflight' = DictPop(DictPop(inflight, StageKey(dec.trace_id, "doer")),
                               StageKey(dec.trace_id, "dispatcher"))
        /\ events' = AddAll(events, next_id, r.recs)
        /\ next_id' = next_id + Len(r.recs)
        /\ q' = [q EXCEPT !.decisions = Tail(@),
                          !.actions = IF r.raises THEN @ ELSE Append(@, r.evt)]
        /\ runs' = [runs EXCEPT ![dec.trace_id] =
                      [@ EXCEPT !.doer = IF r.raises THEN "error"
                                         ELSE IF r.evt.status = SKIPPED THEN "skipped"
                                         ELSE IF r.evt.status = SENT THEN "sent" ELSE "failed",
                                !.enrich = IF r.raises THEN NoAction ELSE r.enriched,
                                !.final = IF r.raises THEN NoAction ELSE r.evt.action,
                                !.dispatch = IF r.raises \/ ~r.passes THEN "none"
                                             ELSE IF r.tool_res.ok THEN "ok"
                                             ELSE r.tool_res.error_type,
                                !.doer_recs = r.recs,
                                !.doer_at = now, !.doer_key = r.key]]

(***************************************************************************)
(* runtime/watchdog.py                                                     *)
(***************************************************************************)
\* SLO_BY_STAGE.get(stage) and getattr(cfg, slo_attr)
HasSlo(stage) == stage \in {"observer", "thinker", "doer", "dispatcher"}
SloMs(stage) ==
    CASE stage = "observer" -> slo_observer_ms
      [] stage = "thinker" -> slo_thinker_ms
      [] stage = "doer" -> slo_doer_ms
      [] stage = "dispatcher" -> slo_dispatcher_ms

\* time.sleep(0.25) between ticks, and the 10.0 s debounce window
PollMs == 250
DebounceMs == 10000

\* the keys the watchdog model follows: a thinker stage of any length and a
\* dispatcher stage that ends within WdShortMs
WdKeys == {StageKey("t1", "thinker"), StageKey("t2", "dispatcher")}
WdShortKeys == {StageKey("t2", "dispatcher")}

NoFlight == [state |-> "none", start |-> 0, end |-> 0]

\* if now - last < 10.0: continue
NeverDebounced(at, last) == FALSE
Debounced(at, last) == at - last < Ms(DebounceMs)

BreachPayload(inf, elapsed_ms, slo_ms) ==
    [event |-> "stage_timeout", status |-> EmptyStr, action |-> NoAction,
     stage |-> inf.stage, trace_id |-> inf.trace_id, clip_index |-> inf.clip_index,
     elapsed_ms |-> elapsed_ms, slo_ms |-> slo_ms]

\* the loop body of _tick for one snapshot entry: does it fire?
FiresAnyElapsed(inf, at, frd) ==
    /\ HasSlo(inf.stage)
    /\ ~Debounced(at, frd[inf.key])
Fires(inf, at, frd) ==
    /\ HasSlo(inf.stage)
    /\ ~(TruncMs(at - inf.start_ts) < SloMs(inf.stage))
    /\ ~Debounced(at, frd[inf.key])

\* the for loop of _tick over the snapshot: the _fired map after it
RECURSIVE TickFired(_, _, _)
TickFired(snapshot, at, frd) ==
    IF snapshot = <<>> THEN frd
    ELSE LET inf == Head(snapshot)
         IN  TickFired(Tail(snapshot), at,
                       IF Fires(inf, at, frd) THEN [frd EXCEPT ![inf.key] = at] ELSE frd)

\* the for loop of _tick over the snapshot: the audit records it adds
RECURSIVE TickRecords(_, _, _)
TickRecords(snapshot, at, frd) ==
    IF snapshot = <<>> THEN <<>>
    ELSE LET inf == Head(snapshot)
         IN  IF Fires(inf, at, frd)
             THEN <<<<"stage_timeout", inf.trace_id,
                      BreachPayload(inf, TruncMs(at - inf.start_ts), SloMs(inf.stage))>>>>
                  \o TickRecords(Tail(snapshot), at, [frd EXCEPT ![inf.key] = at])
             ELSE TickRecords(Tail(snapshot), at, frd)

(***************************************************************************)
(* SpecMarks: any sequence of mark calls, with time passing in between     *)
(***************************************************************************)
MarkKinds == {"clip", "observation", "decision", "action", "other"}

InitMarks ==
    /\ now = StartTime
    /\ inflight = <<>>
    /\ ts = [t \in Traces |-> Absent]
    /\ op = [name |-> "init"]
    /\ ret = None
    /\ events = <<>>
    /\ next_id = 1
    /\ added = <<>>
    /\ fired = [k \in WdKeys |-> 0]
    /\ next_tick = StartTime
    /\ last_tick = 0
    /\ flights = [k \in WdKeys |-> NoFlight]
    /\ q = [clips |-> <<>>, observations |-> <<>>, decisions |-> <<>>, actions |-> <<>>]
    /\ last_emit = [k \in ThinkerKeys |-> 0]
    /\ doer_last = EmptyDict
    /\ use_gemini = TRUE
    /\ gameday_force = TRUE
    /\ simulated_down = FALSE
    /\ runs = [t \in Traces |-> NoRun]
    /\ gameday_enabled = TRUE
    /\ scenario = "none"
    /\ since = StartTime
    /\ pub = [t \in Topics |-> <<>>]
    /\ got = [t \in Topics |-> <<>>]
    /\ alive = [st \in Stages |-> TRUE]
    /\ caught = [st \in Stages |-> 0]
    /\ InitThreads

MarksTick ==
    /\ now < StartTime + MaxMarkTicks
    /\ now' = now + 1
    /\ UNCHANGED <<stateVars, auditVars, wdVars, pipeVars, extVars>>

\* the first trace is marked with every kind, the others with the two
\* milestones the decision latency reads
MarksMark ==
    /\ \E trace_id \in MarkTraces, kind \in MarkKinds :
          /\ kind \in {"clip", "decision"} \/ trace_id = "t1"
          /\ mark(trace_id, kind)
    /\ UNCHANGED <<now, inflight, auditVars, wdVars, pipeVars, extVars>>

NextMarks == MarksTick \/ MarksMark

SpecMarks == InitMarks /\ [][NextMarks]_vars

BothMarked(t) == t # Absent /\ t.clip_ts # None /\ t.dec_ts # None

\* C6 (as stated): e2e_decision_latency is None unless both the clip mark
\* and the decision mark exist, and otherwise is the difference in
\* milliseconds and is always >= 0.
CexC6 ==
    \A tr \in Traces :
        LET L == e2e_decision_latency_ms(ts, tr)
        IN  /\ (L = None) <=> ~BothMarked(ts[tr])
            /\ L # None => L.val >= 0

\* C6 (amended): e2e_decision_latency is None exactly when the clip mark or
\* the decision mark is missing; otherwise it is the difference decision
\* minus clip truncated toward zero to whole milliseconds, which is >= 0
\* when the clip stamp is not later than the decision stamp and negative
\* when the clip stamp is a millisecond or more later.
ThmC6 ==
    \A tr \in Traces :
        LET L == e2e_decision_latency_ms(ts, tr)
            d == ts[tr].dec_ts.val - ts[tr].clip_ts.val
        IN  /\ (L = None) <=> ~BothMarked(ts[tr])
            /\ L # None =>
                  /\ d >= 0 => (L.val >= 0 /\ Ms(L.val) <= d /\ d < Ms(L.val + 1))
                  /\ d < 0 => (L.val <= 0 /\ Ms(L.val - 1) < d /\ d <= Ms(L.val))
                  /\ (L.val < 0) <=> (d <= 0 - Ms(1))

\* both marks exist, a millisecond and a half apart: the latency is 1
WitC6 ==
    \E tr \in Traces :
        /\ BothMarked(ts[tr])
        /\ ts[tr].dec_ts.val - ts[tr].clip_ts.val = 3
        /\ e2e_decision_latency_ms(ts, tr) = Some(3 \div TicksPerMs)

\* C8: once a milestone timestamp of a trace has a value, a later mark call
\* leaves it unchanged (a TraceTimestamps field is never rewritten).
CexC8 ==
    [][\A tr \in Traces :
          ts[tr] # Absent =>
             /\ ts'[tr] # Absent
             /\ ts[tr].clip_ts # None => ts'[tr].clip_ts = ts[tr].clip_ts
             /\ ts[tr].obs_ts # None => ts'[tr].obs_ts = ts[tr].obs_ts
             /\ ts[tr].dec_ts # None => ts'[tr].dec_ts = ts[tr].dec_ts
             /\ ts[tr].act_ts # None => ts'[tr].act_ts = ts[tr].act_ts]_vars

(***************************************************************************)
(* SpecStages: any sequence of begin_stage / end_stage calls               *)
(***************************************************************************)
\* a trace carries the clip index of its clip
ClipIndex(trace_id) == IF trace_id = "t1" THEN 0 ELSE IF trace_id = "t2" THEN 1 ELSE 2

StagesStages == {"observer", "thinker"}


StagesTick ==
    /\ now < StartTime + MaxStageTicks
    /\ now' = now + 1
    /\ UNCHANGED <<stateVars, auditVars, wdVars, pipeVars, extVars>>

StagesBegin ==
    /\ \E trace_id \in MarkTraces, stage \in StagesStages :
          begin_stage(trace_id, stage, ClipIndex(trace_id))
    /\ UNCHANGED <<now, ts, auditVars, wdVars, pipeVars, extVars>>

StagesEnd ==
    /\ \E trace_id \in MarkTraces, stage \in StagesStages :
          end_stage(StageKey(trace_id, stage))
    /\ UNCHANGED <<now, ts, auditVars, wdVars, pipeVars, extVars>>

NextStages == StagesTick \/ StagesBegin \/ StagesEnd

SpecStages == InitMarks /\ [][NextStages]_vars

EntriesOf(inf, key) == {i \in 1..Len(inf) : inf[i].key = key}

OthersKept(inf1, inf2, key) == DictPop(inf1, key) = DictPop(inf2, key)

\* C7: at most one StageInFlight exists per trace+stage key at any instant;
\* begin_stage on a live key overwrites its entry; end_stage on a key that is
\* not in flight returns None and changes no entry, and end_stage on a live
\* key returns that entry and removes only it.
ThmC7 ==
    /\ [](\A i \in 1..Len(inflight) : Cardinality(EntriesOf(inflight, inflight[i].key)) = 1)
    /\ [][/\ op'.name = "begin_stage" /\ <<op, inflight>> # <<op', inflight'>> =>
               /\ DictGet(inflight', op'.key) # None
               /\ DictGet(inflight', op'.key).val.start_ts = now
               /\ OthersKept(inflight, inflight', op'.key)
          /\ op'.name = "end_stage" /\ <<op, ret>> # <<op', ret'>> =>
               /\ ret' = DictGet(inflight, op'.key)
               /\ op'.key \notin InflightKeys(inflight) => (ret' = None /\ inflight' = inflight)
               /\ op'.key \notin InflightKeys(inflight')
               /\ OthersKept(inflight, inflight', op'.key)]_vars

\* end_stage was called on a key already ended while another stage is in
\* flight: it returned None
WitC7 ==
    /\ op.name = "end_stage"
    /\ ret = None
    /\ Len(inflight) >= 2

(***************************************************************************)
(* SpecAudit: any sequence of add calls with the records the program adds  *)
(***************************************************************************)
\* the audit records the stages add, by kind: the action records are the
\* Doer's (status sent, skipped or failed), the others carry an event name
AuditInputs ==
    {<<"action", Payload("", st, Action(ty, P1, "console", "m"))>> :
        st \in {SENT, FAILED, SKIPPED}, ty \in {STOP_LINE, ALERT}}
    \cup {<<"decision", Payload("", EmptyStr, NoAction)>>,
          <<"stage_timeout", Payload("stage_timeout", EmptyStr, NoAction)>>}


AuditTick ==
    /\ now < StartTime + MaxAuditTicks
    /\ now' = now + 1
    /\ UNCHANGED <<stateVars, auditVars, wdVars, pipeVars, extVars>>

AuditAdd ==
    /\ Len(added) < MaxAdds
    /\ \E trace_id \in {"t1"}, inp \in AuditInputs : add(inp[1], trace_id, inp[2])
    /\ UNCHANGED <<now, stateVars, wdVars, pipeVars, extVars>>

NextAudit == AuditTick \/ AuditAdd

SpecAudit == InitMarks /\ [][NextAudit]_vars

\* C9: the buffer never holds more than max_events records, and
\* recent(max_events) returns the last max_events records added (all of them
\* while fewer were added), newest first.
ThmC9 ==
    LET r == recent(events, max_events)
        n == Len(added)
    IN  /\ Len(events) <= max_events
        /\ Len(r) = Min(n, max_events)
        /\ \A i \in 1..Len(r) : r[i] = added[n - i + 1]

\* more records were added than the buffer holds
WitC9 ==
    /\ Len(added) > max_events
    /\ Len(events) = max_events
    /\ recent(events, max_events)[1] = added[Len(added)]
    /\ added[1] \notin {events[i] : i \in 1..Len(events)}

(***************************************************************************)
(* SpecWatchdog: stages begin and end while the watchdog polls             *)
(***************************************************************************)

\* time passes, up to the next wake-up of the watchdog loop; the run is
\* followed until the stages that began have ended
WdAdvance ==
    /\ now < next_tick
    /\ now < StartTime + Ms(WdMaxMs)
    /\ \/ now < StartTime + Ms(WdBeginWindowMs)
       \/ \E k \in WdKeys : flights[k].state = "live"
    /\ \A k \in WdShortKeys :
          flights[k].state = "live" => now < flights[k].start + Ms(WdShortMs)
    /\ now' = Min(now + Ms(WdStepMs), next_tick)
    /\ UNCHANGED <<stateVars, auditVars, wdVars, pipeVars, extVars>>

\* a stage handler enters its stage
WdBegin ==
    /\ now < StartTime + Ms(WdBeginWindowMs)
    /\ \E k \in WdKeys :
          /\ begin_stage(k[1], k[2], ClipIndex(k[1]))
          /\ flights' = [flights EXCEPT ![k] = [state |-> "live", start |-> now, end |-> 0]]
    /\ UNCHANGED <<now, ts, auditVars, fired, next_tick, last_tick, pipeVars, extVars>>

\* a stage handler leaves its stage; a stage that ends at an instant is no
\* longer in flight for a tick at that instant
WdEnd ==
    /\ last_tick # now
    /\ \E k \in WdKeys :
          /\ k \in InflightKeys(inflight)
          /\ end_stage(k)
          /\ flights' = [flights EXCEPT ![k].state = "ended", ![k].end = now]
    /\ UNCHANGED <<now, ts, auditVars, fired, next_tick, last_tick, pipeVars, extVars>>

\* one iteration of Watchdog.run: _tick, then time.sleep(0.25), which may
\* oversleep
WdTick ==
    /\ now = next_tick
    /\ now < StartTime + Ms(WdMaxMs)
    /\ fired' = TickFired(inflight, now, fired)
    /\ add_all(TickRecords(inflight, now, fired))
    /\ last_tick' = now
    /\ \E jitter \in {0, WdJitterMs} : next_tick' = now + Ms(PollMs) + Ms(jitter)
    /\ UNCHANGED <<now, stateVars, flights, pipeVars, extVars>>

NextWatchdog == WdAdvance \/ WdBegin \/ WdEnd \/ WdTick

SpecWatchdog == InitMarks /\ [][NextWatchdog]_vars

\* the breach records added for a key, oldest first
BreachesOf(k) ==
    SelectSeq(added, LAMBDA r : r.kind = "stage_timeout"
                                /\ StageKey(r.payload.trace_id, r.payload.stage) = k)

\* the time at which the flight of k goes over its SLO
OverAt(k) == flights[k].start + Ms(SloMs(k[2]))

PeriodMax == Ms(PollMs) + Ms(WdJitterMs)

CeilDiv(a, b) == (a + b - 1) \div b

\* C4: breach events of one key are never less than the debounce window
\* apart; a stage over its SLO fires at the first tick after it goes over,
\* then once per debounce window (at the first tick after the window) until
\* it ends; a stage that ends before it goes over its SLO never fires, and a
\* stage that is over its SLO for 30 s fires exactly 3 times.
ThmC4 ==
    \A k \in WdKeys :
        LET B == BreachesOf(k)
            n == Len(B)
            due == IF n = 0 THEN OverAt(k) ELSE B[n].ts + Ms(DebounceMs)
            D == flights[k].end - OverAt(k)
        IN  /\ \A i \in 1..(n - 1) :
                  /\ B[i + 1].ts - B[i].ts >= Ms(DebounceMs)
                  /\ B[i + 1].ts - B[i].ts < Ms(DebounceMs) + PeriodMax
            /\ n > 0 => (B[1].ts >= OverAt(k) /\ B[1].ts < OverAt(k) + PeriodMax)
            /\ flights[k].state = "live" => now <= due + PeriodMax
            /\ flights[k].state = "ended" =>
                  /\ D <= 0 => n = 0
                  /\ D > 0 => n <= CeilDiv(D, Ms(DebounceMs))
                  /\ D = Ms(30000) => n = 3

\* a stage ended after 30 s over its SLO, with 3 breach events
WitC4 ==
    \E k \in WdKeys :
        /\ flights[k].state = "ended"
        /\ flights[k].end - OverAt(k) = Ms(30000)
        /\ Len(BreachesOf(k)) = 3

(***************************************************************************)
(* Spec: the Thinker and the Doer handle the observations of a few clips   *)
(***************************************************************************)
Signals(panel, machine, walkway) ==
    [walkway_violation |-> walkway, restricted_area_entry |-> Missing,
     unsafe_proximity_to_machine |-> Str(NO), machine_operating |-> machine,
     panel_open |-> panel, guard_open |-> Str(UNCERTAIN)]
SigPanel == Signals(Str(YES), Str(<<" ","Y","e","s">>), Missing)
SigWalkway == Signals(Str(NO), NonStr, Str(YES))
SigNone == Signals(Str(YES), Str(NO), Str(UNCERTAIN))

ObservationEvent(trace_id, signals) ==
    [trace_id |-> trace_id, camera_id |-> "cam-security-1", clip_index |-> ClipIndex(trace_id),
     signals |-> signals]

\* the observations topic when the Thinker starts on it: the clips of two
\* traces were ingested and observed at StartTime
PipeQueues ==
    {<<ObservationEvent("t1", s[1]), ObservationEvent("t2", s[2])>> :
        s \in {<<SigPanel, SigPanel>>, <<SigPanel, SigWalkway>>, <<SigNone, SigPanel>>}}

ObservedAt(at) == [TraceTimestamps EXCEPT !.clip_ts = Some(at), !.obs_ts = Some(at)]

\* outcomes of the lookup call: no hit, two hits, five hits after the time
\* budget, and a call that raises
LookupInputs ==
    {[raised |-> FALSE, hits |-> 0, lat_ms |-> 0],
     [raised |-> FALSE, hits |-> 2, lat_ms |-> 0],
     [raised |-> FALSE, hits |-> 5, lat_ms |-> sop_timeout_ms + 1],
     [raised |-> TRUE, hits |-> 0, lat_ms |-> 0]}

RawStop == Str(<<" ","S","t","o","p","-","L","i","n","e">>)
RawOther == Str(<<"e","s","c","a","l","a","t","e">>)
HighStr == Str(<<"H","i","g","h">>)

LlmOut(violation, actions) ==
    [raises |-> FALSE, parses |-> TRUE,
     out |-> [violation |-> violation, rule_id |-> "", severity |-> HighStr, actions |-> actions]]

\* outcomes of the Thinker's model call
ThinkerLlmInputs ==
    {[raises |-> TRUE, parses |-> FALSE, out |-> ParseFallback],
     [raises |-> FALSE, parses |-> FALSE, out |-> ParseFallback],
     LlmOut(FALSE, <<RawAction(RawStop, Str(P1), "console", "stop")>>),
     LlmOut(TRUE, <<>>),
     LlmOut(TRUE, <<RawAction(RawStop, Str(<<"3">>), "console", "stop")>>),
     LlmOut(TRUE, <<RawAction(Str(ALERT), Missing, "", "")>>),
     LlmOut(TRUE, <<RawAction(RawOther, Str(P1), "console", "call")>>),
     [LlmOut(TRUE, <<RawAction(Str(ALERT), Str(P2), "console", "check")>>)
         EXCEPT !.out.rule_id = "walkway_violation"]}

\* outcomes of the Doer's model call
DoerLlmInputs ==
    {[raises |-> TRUE, parses |-> FALSE, actions |-> <<>>],
     [raises |-> FALSE, parses |-> FALSE, actions |-> <<>>],
     [raises |-> FALSE, parses |-> TRUE, actions |-> <<>>],
     [raises |-> FALSE, parses |-> TRUE,
      actions |-> <<RawAction(Str(STOP_LINE), Str(<<"p","3">>), "console", "steps")>>],
     [raises |-> FALSE, parses |-> TRUE, actions |-> <<RawAction(Missing, Missing, "", "")>>]}

\* latencies of the delivery call: within and over its budget
DispatchLatencies == {0, slo_dispatcher_ms + 1}

Init ==
    /\ now = StartTime
    /\ inflight = <<>>
    /\ q \in {[clips |-> <<>>, observations |-> obs, decisions |-> <<>>, actions |-> <<>>] : obs \in PipeQueues}
    /\ ts = [t \in Traces |-> IF \E i \in 1..Len(q.observations) : q.observations[i].trace_id = t
                              THEN ObservedAt(StartTime) ELSE Absent]
    /\ op = [name |-> "init"]
    /\ ret = None
    /\ events = <<>>
    /\ next_id = 1
    /\ added = <<>>
    /\ fired = [k \in WdKeys |-> 0]
    /\ next_tick = StartTime
    /\ last_tick = 0
    /\ flights = [k \in WdKeys |-> NoFlight]
    /\ last_emit = [k \in ThinkerKeys |-> 0]
    /\ doer_last = EmptyDict
    /\ use_gemini \in BOOLEAN
    /\ gameday_force = TRUE
    /\ simulated_down = FALSE
    /\ runs = [t \in Traces |-> NoRun]
    /\ gameday_enabled = TRUE
    /\ scenario \in {"none", "dispatcher_outage"}
    /\ since = StartTime
    /\ pub = [t \in Topics |-> <<>>]
    /\ got = [t \in Topics |-> <<>>]
    /\ alive = [st \in Stages |-> TRUE]
    /\ caught = [st \in Stages |-> 0]
    /\ InitThreads

PipeAdvance ==
    /\ now < StartTime + Ms(PipeMaxMs)
    /\ now' = now + Ms(PipeStepMs)
    /\ UNCHANGED <<stateVars, auditVars, wdVars, pipeVars, extVars>>

\* one iteration of ThinkerAgent.run with a message on the topic
PipeThinker ==
    /\ q.observations # <<>>
    /\ \E lookup \in LookupInputs, llm \in ThinkerLlmInputs :
          handle_observation(Head(q.observations), lookup, llm)
    /\ UNCHANGED <<now, op, ret, added, wdVars, doer_last, use_gemini, gameday_force, simulated_down, extVars>>

\* one iteration of DoerAgent.run with a message on the topic
PipeDoer ==
    /\ q.decisions # <<>>
    /\ \E llm \in DoerLlmInputs, lat_ms \in DispatchLatencies :
          handle_decision(Head(q.decisions), llm, lat_ms)
    /\ UNCHANGED <<now, ts, op, ret, added, wdVars, last_emit, use_gemini, gameday_force, extVars>>

Next == PipeAdvance \/ PipeThinker \/ PipeDoer

Spec == Init /\ [][Next]_vars

Published(t) == runs[t].thinker = "published"

\* C1: every ActionEvent whose action type is stop_line (whatever its status)
\* comes from a decision whose lookup succeeded and returned at least one
\* citation; so does every stop_line decision waiting on the decisions topic.
ThmC1 ==
    /\ \A i \in 1..Len(q.actions) :
          _canonical_action_type(q.actions[i].action.type) = STOP_LINE =>
              /\ runs[q.actions[i].trace_id].lookup_ok
              /\ runs[q.actions[i].trace_id].ncit >= 1
    /\ \A i \in 1..Len(q.decisions) :
          q.decisions[i].recommended_actions[1].type = STOP_LINE =>
              /\ runs[q.decisions[i].trace_id].lookup_ok
              /\ q.decisions[i].citations >= 1
    /\ \A i \in 1..Len(events) :
          (events[i].kind = "action" /\ events[i].payload.action.type = STOP_LINE) =>
              runs[events[i].trace_id].ncit >= 1

\* a grounded stop_line was delivered
WitC1 ==
    \E i \in 1..Len(q.actions) :
        /\ q.actions[i].action.type = STOP_LINE
        /\ q.actions[i].status = SENT
        /\ runs[q.actions[i].trace_id].ncit >= 1

\* C2: in a published decision, a recommended stop_line with zero citations
\* is rewritten to alert, P1 and the grounding-missing message, and a
\* degradation audit record was added; a recommended action with at least
\* one citation (or of another type) is passed through unchanged, without a
\* degradation record.
ThmC2 ==
    \A t \in Traces :
        Published(t) =>
            IF runs[t].ncit = 0 /\ runs[t].rec.type = STOP_LINE
            THEN /\ runs[t].decided.type = ALERT
                 /\ runs[t].decided.priority = P1
                 /\ runs[t].decided.message = GroundingMessage
                 /\ runs[t].decided.target = runs[t].rec.target
                 /\ runs[t].degraded
            ELSE /\ runs[t].decided = runs[t].rec
                 /\ ~runs[t].degraded

\* an ungrounded stop_line recommendation was published as an alert
WitC2 ==
    \E t \in Traces :
        /\ Published(t)
        /\ runs[t].ncit = 0
        /\ runs[t].rec.type = STOP_LINE
        /\ runs[t].decided.type = ALERT
        /\ runs[t].degraded

\* a grounded stop_line recommendation was passed through
WitC2Grounded ==
    \E t \in Traces :
        /\ Published(t)
        /\ runs[t].ncit >= 1
        /\ runs[t].decided.type = STOP_LINE

\* C3: when a stop_line recommendation has no citations, the ActionEvent the
\* Doer records and publishes for that trace has type alert and priority P1.
CexC3 ==
    \A i \in 1..Len(q.actions) :
        LET e == q.actions[i]
        IN  (runs[e.trace_id].rec.type = STOP_LINE /\ runs[e.trace_id].ncit = 0) =>
                (e.action.type = ALERT /\ e.action.priority = P1)

(***************************************************************************)
(* SpecCooldown: three triggering observations reach the Thinker           *)
(***************************************************************************)
CoolQueues ==
    {<<ObservationEvent("t1", SigPanel), ObservationEvent("t2", s), ObservationEvent("t3", SigPanel)>> :
        s \in {SigPanel, SigWalkway}}

CoolLlmInputs ==
    {[raises |-> TRUE, parses |-> FALSE, out |-> ParseFallback],
     LlmOut(FALSE, <<>>),
     LlmOut(TRUE, <<RawAction(Str(ALERT), Str(P2), "console", "check")>>)}

InitCooldown ==
    /\ now = StartTime
    /\ inflight = <<>>
    /\ q \in {[clips |-> <<>>, observations |-> obs, decisions |-> <<>>, actions |-> <<>>] : obs \in CoolQueues}
    /\ ts = [t \in Traces |-> ObservedAt(StartTime)]
    /\ op = [name |-> "init"]
    /\ ret = None
    /\ events = <<>>
    /\ next_id = 1
    /\ added = <<>>
    /\ fired = [k \in WdKeys |-> 0]
    /\ next_tick = StartTime
    /\ last_tick = 0
    /\ flights = [k \in WdKeys |-> NoFlight]
    /\ last_emit = [k \in ThinkerKeys |-> 0]
    /\ doer_last = EmptyDict
    /\ use_gemini \in BOOLEAN
    /\ gameday_force = TRUE
    /\ simulated_down = FALSE
    /\ runs = [t \in Traces |-> NoRun]
    /\ gameday_enabled = TRUE
    /\ scenario = "none"
    /\ since = StartTime
    /\ pub = [t \in Topics |-> <<>>]
    /\ got = [t \in Topics |-> <<>>]
    /\ alive = [st \in Stages |-> TRUE]
    /\ caught = [st \in Stages |-> 0]
    /\ InitThreads

CoolAdvance ==
    /\ now < StartTime + Ms(CoolMaxMs)
    /\ now' = now + Ms(CoolStepMs)
    /\ UNCHANGED <<stateVars, auditVars, wdVars, pipeVars, extVars>>

CoolThinker ==
    /\ q.observations # <<>>
    /\ \E lookup \in {[raised |-> FALSE, hits |-> 2, lat_ms |-> 0]}, llm \in CoolLlmInputs :
          handle_observation(Head(q.observations), lookup, llm)
    /\ UNCHANGED <<now, op, ret, added, wdVars, doer_last, use_gemini, gameday_force, simulated_down, extVars>>

NextCooldown == CoolAdvance \/ CoolThinker

SpecCooldown == InitCooldown /\ [][NextCooldown]_vars

Handled(t) == runs[t].thinker # "none"
Cooldown == Ms(cooldown_s * 1000)

\* the first two occurrences of a key: t1 and t2 were handled less than the
\* cooldown apart and have the same camera+rule key
FirstTwoWithin ==
    /\ Handled("t1") /\ Handled("t2")
    /\ runs["t2"].key = runs["t1"].key
    /\ runs["t2"].at - runs["t1"].at < Cooldown

\* a third occurrence of the key, handled after the cooldown of the first
ThirdAfter ==
    /\ FirstTwoWithin /\ Handled("t3")
    /\ runs["t3"].key = runs["t1"].key
    /\ runs["t3"].at - runs["t1"].at >= Cooldown

NumPublished(S) == Cardinality({t \in S : Published(t)})

ScenarioInputs == VALID_SCENARIOS \cup {"not_a_real_scenario", "Injection", ""}

InitGameDay ==
    /\ now = StartTime
    /\ inflight = <<>>
    /\ ts = [t \in Traces |-> Absent]
    /\ ret = None
    /\ events = <<>>
    /\ next_id = 1
    /\ added = <<>>
    /\ fired = [k \in WdKeys |-> 0]
    /\ next_tick = StartTime
    /\ last_tick = 0
    /\ flights = [k \in WdKeys |-> NoFlight]
    /\ q = [clips |-> <<>>, observations |-> <<>>, decisions |-> <<>>, actions |-> <<>>]
    /\ last_emit = [k \in ThinkerKeys |-> 0]
    /\ doer_last = EmptyDict
    /\ use_gemini = TRUE
    /\ gameday_force = TRUE
    /\ simulated_down = FALSE
    /\ runs = [t \in Traces |-> NoRun]
    /\ gameday_enabled \in BOOLEAN
    /\ \E configured \in ScenarioInputs :
          /\ scenario = InitialScenario(gameday_enabled, configured)
          /\ op = [name |-> "init", arg |-> configured]
    /\ since = StartTime
    /\ pub = [t \in Topics |-> <<>>]
    /\ got = [t \in Topics |-> <<>>]
    /\ alive = [st \in Stages |-> TRUE]
    /\ caught = [st \in Stages |-> 0]
    /\ InitThreads

GdTick ==
    /\ now < StartTime + MaxGdTicks
    /\ now' = now + 1
    /\ UNCHANGED <<stateVars, auditVars, wdVars, pipeVars, extVars>>

GdSetScenario ==
    /\ Len(added) < MaxGdCalls
    /\ \E s \in ScenarioInputs :
          /\ set_scenario(s)
          /\ op' = [name |-> "set_scenario", arg |-> s]
    /\ ret' = None
    /\ UNCHANGED <<now, inflight, ts, wdVars, pipeVars, gameday_enabled, busVars, loopVars, thrVars>>

GdReset ==
    /\ Len(added) < MaxGdCalls
    /\ reset
    /\ op' = [name |-> "reset", arg |-> ""]
    /\ ret' = None
    /\ UNCHANGED <<now, inflight, ts, wdVars, pipeVars, gameday_enabled, busVars, loopVars, thrVars>>

GdActive ==
    /\ \E x \in ScenarioInputs :
          /\ ret' = Some(active(x))
          /\ op' = [name |-> "active", arg |-> x]
    /\ UNCHANGED <<now, inflight, ts, auditVars, wdVars, pipeVars, extVars>>

NextGameDay == GdTick \/ GdSetScenario \/ GdReset \/ GdActive

SpecGameDay == InitGameDay /\ [][NextGameDay]_vars

\* C11: set_scenario with a name outside the valid set leaves the
\* controller with active scenario none, and the audit record of the call
\* carries none, not the invalid name.
ThmC11 ==
    (op.name = "set_scenario" /\ op.arg \notin VALID_SCENARIOS) =>
        /\ scenario = "none"
        /\ added[Len(added)].kind = "health"
        /\ added[Len(added)].payload.event = "scenario_set"
        /\ added[Len(added)].payload.scenario = "none"
        /\ gameday_enabled => active("none")

\* an invalid name replaced a stored scenario other than none
WitC11 ==
    /\ op.name = "set_scenario" /\ op.arg = "not_a_real_scenario"
    /\ scenario = "none"
    /\ Len(added) >= 2
    /\ added[Len(added) - 1].payload.scenario = "injection"

\* C12: when the controller is disabled, active(x) is false for every x,
\* the stored scenario and none included, after any sequence of calls.
ThmC12 ==
    ~gameday_enabled =>
        /\ \A x \in ScenarioInputs \cup {scenario} : ~active(x)
        /\ op.name = "active" => ret = Some(FALSE)

\* disabled, with injection stored, and active("injection") was asked
WitC12 ==
    /\ ~gameday_enabled
    /\ scenario = "injection"
    /\ op = [name |-> "active", arg |-> "injection"]
    /\ ret = Some(FALSE)

\* C13: the stored scenario is always a valid scenario: after construction
\* it is the configured default, or none when that is invalid or the
\* controller is disabled; reset() leaves it equal to none.
ThmC13 ==
    /\ scenario \in VALID_SCENARIOS
    /\ op.name = "init" =>
          scenario = (IF gameday_enabled /\ op.arg \in VALID_SCENARIOS THEN op.arg ELSE "none")
    /\ op.name = "reset" => scenario = "none"

\* reset after a scenario other than none was stored
WitC13 ==
    /\ op.name = "reset"
    /\ scenario = "none"
    /\ Len(added) >= 2
    /\ added[Len(added) - 1].payload.scenario = "dispatcher_outage"

(***************************************************************************)
(* SpecHelpers: the pure helpers applied to the values they may be given   *)
(***************************************************************************)
\* values under a signal key of an observation: yes in two spellings, no,
\* uncertain, a missing key and a value that is not a string
SignalValues == {Str(YES), Str(<<" ","Y","e","s">>), Str(NO), Str(UNCERTAIN), Missing, NonStr}
SignalInputs ==
    [{"walkway_violation", "restricted_area_entry", "unsafe_proximity_to_machine",
      "machine_operating", "panel_open", "guard_open"} -> SignalValues]

\* action type strings of a model's output
TypeInputs ==
    {<<" ","S","t","o","p","-","L","i","n","e">>, <<"S","T","O","P">>, <<"h","a","l","t">>,
     <<"s","t","o","p"," ","l","i","n","e">>, <<"s","h","u","t","d","o","w","n">>,
     ALERT, <<"W","a","r","n">>, <<"n","o","t","i","f","y"," ">>, <<>>, <<" ">>,
     <<"e","s","c","a","l","a","t","e">>, <<"s","h","u","t","-","d","o","w","n">>}

\* elapsed times of a wrapped call, around the two budgets in use
ElapsedInputs ==
    {0, Ms(sop_timeout_ms), Ms(sop_timeout_ms) + 1, Ms(sop_timeout_ms + 1),
     Ms(slo_dispatcher_ms), Ms(slo_dispatcher_ms + 1)}

\* the calls made: a helper and its arguments
HelperCalls ==
    {[name |-> "_should_trigger", arg |-> sig] : sig \in SignalInputs}
    \cup {[name |-> "_canonical_action_type", arg |-> t] : t \in TypeInputs}
    \cup {[name |-> "call_tool", raised |-> raised, elapsed |-> elapsed, timeout_ms |-> timeout_ms] :
             raised \in BOOLEAN, elapsed \in ElapsedInputs,
             timeout_ms \in {sop_timeout_ms, slo_dispatcher_ms}}

InitHelpers ==
    /\ now = StartTime
    /\ inflight = <<>>
    /\ ts = [t \in Traces |-> Absent]
    /\ op \in HelperCalls
    /\ ret = None
    /\ events = <<>>
    /\ next_id = 1
    /\ added = <<>>
    /\ fired = [k \in WdKeys |-> 0]
    /\ next_tick = StartTime
    /\ last_tick = 0
    /\ flights = [k \in WdKeys |-> NoFlight]
    /\ q = [clips |-> <<>>, observations |-> <<>>, decisions |-> <<>>, actions |-> <<>>]
    /\ last_emit = [k \in ThinkerKeys |-> 0]
    /\ doer_last = EmptyDict
    /\ use_gemini = TRUE
    /\ gameday_force = TRUE
    /\ simulated_down = FALSE
    /\ runs = [t \in Traces |-> NoRun]
    /\ gameday_enabled = TRUE
    /\ scenario = "none"
    /\ since = StartTime
    /\ pub = [t \in Topics |-> <<>>]
    /\ got = [t \in Topics |-> <<>>]
    /\ alive = [st \in Stages |-> TRUE]
    /\ caught = [st \in Stages |-> 0]
    /\ InitThreads

EvalTrigger ==
    /\ ret = None
    /\ op.name = "_should_trigger"
    /\ ret' = Some(_should_trigger(op.arg))
    /\ UNCHANGED <<now, inflight, ts, op, auditVars, wdVars, pipeVars, extVars>>

EvalCanonType ==
    /\ ret = None
    /\ op.name = "_canonical_action_type"
    /\ ret' = Some(_canonical_action_type(op.arg))
    /\ UNCHANGED <<now, inflight, ts, op, auditVars, wdVars, pipeVars, extVars>>

EvalCallTool ==
    /\ ret = None
    /\ op.name = "call_tool"
    /\ ret' = Some(call_tool(op.raised, [delivered |-> TRUE], op.elapsed, op.timeout_ms))
    /\ UNCHANGED <<now, inflight, ts, op, auditVars, wdVars, pipeVars, extVars>>

NextHelpers == EvalTrigger \/ EvalCanonType \/ EvalCallTool

SpecHelpers == InitHelpers /\ [][NextHelpers]_vars

\* C14: trigger evaluation returns the first rule that matches, in the order
\* panel_open_while_operating, guard_open_while_operating,
\* unsafe_proximity_while_operating, restricted_area_entry,
\* walkway_violation, where only a yes value counts (no, uncertain, a
\* missing key and a non-string value never match), and no trigger when no
\* rule matches.
ThmC14 ==
    (op.name = "_should_trigger" /\ ret # None) =>
        LET sig == op.arg
            yes(k) == sig[k] \in {Str(YES), Str(<<" ","Y","e","s">>)}
            order == <<"panel_open_while_operating", "guard_open_while_operating",
                       "unsafe_proximity_while_operating", "restricted_area_entry",
                       "walkway_violation">>
            match == <<yes("panel_open") /\ yes("machine_operating"),
                       yes("guard_open") /\ yes("machine_operating"),
                       yes("unsafe_proximity_to_machine") /\ yes("machine_operating"),
                       yes("restricted_area_entry"),
                       yes("walkway_violation")>>
            hits == {i \in 1..5 : match[i]}
        IN  IF hits = {}
            THEN ret = Some(<<FALSE, "">>)
            ELSE \E i \in hits :
                    /\ \A j \in hits : i <= j
                    /\ ret = Some(<<TRUE, order[i]>>)

\* every rule matches and the first one is returned
WitC14 ==
    /\ op.name = "_should_trigger"
    /\ ret # None
    /\ \A k \in DOMAIN op.arg : op.arg[k] \in {Str(YES), Str(<<" ","Y","e","s">>)}
    /\ ret = Some(<<TRUE, "panel_open_while_operating">>)

\* C16: action-type canonicalization maps every string to stop_line or to
\* alert: a recognized stop synonym gives stop_line, every other string,
\* unrecognized and empty ones included, gives alert.
CexC16 ==
    (op.name = "_canonical_action_type" /\ ret # None) =>
        /\ ret.val \in {STOP_LINE, ALERT}
        /\ ret.val = STOP_LINE <=>
              Replace(Replace(Lower(Strip(op.arg)), "-", "_"), " ", "_") \in StopWords

CexC15 ==
    \A i \in 1..Len(q.decisions) :
        LET d == q.decisions[i]
        IN  runs[d.trace_id].key[2] = "panel_open_while_operating" =>
                d.rule_id = "panel_open_while_operating"

(***************************************************************************)
(* SpecBus: any sequence of publish and consume calls                      *)
(***************************************************************************)
BusMessages == {"m1", "m2"}

BusPublish ==
    /\ Len(pub.clips) + Len(pub.observations) + Len(pub.decisions) + Len(pub.actions) < MaxPublishes
    /\ \E topic \in Topics, msg \in BusMessages :
          /\ publish(topic, msg)
          /\ op' = [name |-> "publish", topic |-> topic]
    /\ ret' = None
    /\ UNCHANGED <<now, inflight, ts, auditVars, wdVars, last_emit, doer_last, use_gemini,
                   gameday_force, simulated_down, runs, ctlVars, got, loopVars, thrVars>>

BusConsume ==
    /\ \E topic \in Topics :
          /\ consume(topic)
          /\ op' = [name |-> "consume", topic |-> topic]
    /\ UNCHANGED <<now, inflight, ts, auditVars, wdVars, last_emit, doer_last, use_gemini,
                   gameday_force, simulated_down, runs, ctlVars, pub, loopVars, thrVars>>

NextBus == BusPublish \/ BusConsume

SpecBus == InitMarks /\ [][NextBus]_vars

\* C17: on every topic the messages consume returned are a prefix of the
\* messages published to it, in publish order, and the messages still queued
\* are the rest (so none is returned twice); a publish changes the queue of
\* no other topic, and a consume on an empty topic returns None.
ThmC17 ==
    /\ [](\A t \in Topics : pub[t] = got[t] \o q[t])
    /\ [][/\ op'.name = "publish" =>
               \A t \in Topics \ {op'.topic} : q'[t] = q[t] /\ pub'[t] = pub[t]
          /\ op'.name = "consume" =>
               /\ \A t \in Topics \ {op'.topic} : q'[t] = q[t] /\ got'[t] = got[t]
               /\ (ret' = None) <=> (q[op'.topic] = <<>>)
               /\ ret' # None => ret'.val = pub[op'.topic][Len(got[op'.topic]) + 1]]_vars

\* two different messages of one topic were consumed in publish order while
\* another topic still holds its message
WitC17 ==
    /\ got.decisions = <<"m2", "m1">>
    /\ pub.decisions = <<"m2", "m1">>
    /\ q.actions = <<"m1">>
    /\ op = [name |-> "consume", topic |-> "decisions"]

ActionsOf(t) == SelectSeq(q.actions, LAMBDA e : e.trace_id = t)
DoerRecsOf(t, kind) == SelectSeq(runs[t].doer_recs, LAMBDA r : r[1] = kind)

\* C20: when the delivery call of a decision fails (it raises or exceeds
\* its latency budget) the Doer publishes exactly one ActionEvent for it,
\* with status failed and the enriched action re-targeted to pager, and
\* adds it as one action audit record together with a dispatcher_failed
\* tool_error record; every decision that reached dispatch has exactly one
\* ActionEvent.
ThmC20 ==
    \A t \in Traces :
        /\ runs[t].dispatch \in {"dependency", "timeout"} =>
              /\ Len(ActionsOf(t)) = 1
              /\ ActionsOf(t)[1].status = FAILED
              /\ ActionsOf(t)[1].action.target = "pager"
              /\ ActionsOf(t)[1].action.type = runs[t].enrich.type
              /\ ActionsOf(t)[1].action.priority = runs[t].enrich.priority
              /\ ActionsOf(t)[1].action.message = runs[t].enrich.message \o FallbackSuffix
              /\ Len(DoerRecsOf(t, "action")) = 1
              /\ DoerRecsOf(t, "action")[1][3].status = FAILED
              /\ DoerRecsOf(t, "action")[1][3].action = ActionsOf(t)[1].action
              /\ Len(DoerRecsOf(t, "tool_error")) = 1
              /\ DoerRecsOf(t, "tool_error")[1][3].event = "dispatcher_failed"
        /\ runs[t].dispatch = "ok" =>
              /\ Len(ActionsOf(t)) = 1
              /\ ActionsOf(t)[1].status = SENT
        /\ (DispatcherDown /\ runs[t].dispatch # "none") => runs[t].dispatch = "dependency"

\* one delivery raised and another one ran over its budget
WitC20 ==
    \E t \in Traces :
        /\ runs[t].dispatch = "timeout"
        /\ ActionsOf(t)[1].status = FAILED
        /\ ActionsOf(t)[1].action.target = "pager"

\* a delivery raised because the dispatcher was down
WitC20Raised ==
    \E t \in Traces :
        /\ runs[t].dispatch = "dependency"
        /\ simulated_down
        /\ ActionsOf(t)[1].action.target = "pager"

(***************************************************************************)
(* agents/observer.py: ObserverAgent                                       *)
(***************************************************************************)
ClipEvent(trace_id) ==
    [trace_id |-> trace_id, camera_id |-> "cam-security-1", clip_index |-> ClipIndex(trace_id)]

\* the signals of the stub observation, and of an output whose "signals"
\* is not a dict (signals = {})
StubSignals ==
    [walkway_violation |-> Str(UNCERTAIN), restricted_area_entry |-> Str(UNCERTAIN),
     unsafe_proximity_to_machine |-> Str(UNCERTAIN), machine_operating |-> Str(UNCERTAIN),
     panel_open |-> Str(UNCERTAIN), guard_open |-> Str(UNCERTAIN)]
EmptySignals ==
    [walkway_violation |-> Missing, restricted_area_entry |-> Missing,
     unsafe_proximity_to_machine |-> Missing, machine_operating |-> Missing,
     panel_open |-> Missing, guard_open |-> Missing]

\* what handle_clip does for one state of the clip file and one model
\* outcome: the audit records it adds and the observation it publishes
ObserverRun(clip, inp) ==
    LET t == clip.trace_id
        missing == ~inp.clip_exists
        small == use_gemini /\ ~missing /\ inp.video_small
        raises == use_gemini /\ ~missing /\ ~small /\ inp.llm_raises
        observes == ~missing /\ ~small /\ ~raises
        signals == IF ~use_gemini THEN StubSignals
                   ELSE IF inp.signals_is_dict THEN inp.signals ELSE EmptySignals
        recs ==
            <<Rec("stage", t, "stage_start")>>
            \o (IF missing THEN <<Rec("tool_error", t, "clip_missing")>> ELSE <<>>)
            \o (IF small THEN <<Rec("tool_error", t, "video_too_small")>> ELSE <<>>)
            \o (IF use_gemini /\ observes THEN <<Rec("health", t, "llm_call")>> ELSE <<>>)
            \o (IF observes THEN <<Rec("observation", t, "")>> ELSE <<>>)
            \o (IF raises THEN <<Rec("tool_error", t, "observer_exception")>> ELSE <<>>)
            \o <<Rec("stage", t, "stage_end")>>
    IN  [recs |-> recs, observes |-> observes, obs |-> ObservationEvent(t, signals)]

\* handle_clip(msg), for the message at the head of the clips topic
handle_clip(clip, inp) ==
    \E r \in {ObserverRun(clip, inp)} :
        LET t0 == IF ts[clip.trace_id] = Absent THEN TraceTimestamps ELSE ts[clip.trace_id]
        IN  /\ inflight' = DictPop(DictSet(inflight,
                               StageInFlight(clip.trace_id, "observer", clip.clip_index, now)),
                               StageKey(clip.trace_id, "observer"))
            /\ ts' = IF r.observes
                     THEN [ts EXCEPT ![clip.trace_id] = Marked(t0, "observation", now)]
                     ELSE ts
            /\ events' = AddAll(events, next_id, r.recs)
            /\ next_id' = next_id + Len(r.recs)
            /\ q' = [q EXCEPT !.clips = Tail(@),
                              !.observations = IF r.observes THEN Append(@, r.obs) ELSE @]

(***************************************************************************)
(* SpecLoops: the run loops of the three stages, with messages that fail   *)
(* validation and handlers whose cleanup raises                            *)
(***************************************************************************)
\* a message without the required field camera_id: ClipEvent(**msg),
\* ObservationEvent(**msg) and DecisionEvent(**msg) raise on it
BadMessage == [garbage |-> TRUE]
Valid(msg) == "camera_id" \in DOMAIN msg

\* exceptions leaving a handler: none, the validation error of its first
\* line, an error raised by its finally block
NoExc == "none"
Exceptions == {"ValidationError", "RuntimeError"}

\* try: handler(msg) / except Exception: log.exception(...): is the loop
\* still running after the handler left with exc
RunPropagates(exc) == exc = NoExc
RunCatches(exc) == exc = NoExc \/ exc \in Exceptions

\* one iteration of a run loop whose handler left with exc
RunLoop(stage, exc) ==
    /\ alive' = [alive EXCEPT ![stage] = RunCatches(exc)]
    /\ caught' = [caught EXCEPT ![stage] = IF exc = NoExc THEN @ ELSE @ + 1]

ObserverInputs ==
    {[clip_exists |-> FALSE, video_small |-> FALSE, llm_raises |-> FALSE,
      signals_is_dict |-> TRUE, signals |-> SigPanel],
     [clip_exists |-> TRUE, video_small |-> TRUE, llm_raises |-> FALSE,
      signals_is_dict |-> TRUE, signals |-> SigPanel],
     [clip_exists |-> TRUE, video_small |-> FALSE, llm_raises |-> TRUE,
      signals_is_dict |-> TRUE, signals |-> SigPanel],
     [clip_exists |-> TRUE, video_small |-> FALSE, llm_raises |-> FALSE,
      signals_is_dict |-> FALSE, signals |-> SigPanel],
     [clip_exists |-> TRUE, video_small |-> FALSE, llm_raises |-> FALSE,
      signals_is_dict |-> TRUE, signals |-> SigPanel]}

LoopClips ==
    {<<ClipEvent("t1"), ClipEvent("t2")>>, <<BadMessage, ClipEvent("t1")>>,
     <<ClipEvent("t1"), BadMessage>>}

InitLoops ==
    /\ now = StartTime
    /\ inflight = <<>>
    /\ q \in {[clips |-> cs, observations |-> os, decisions |-> ds, actions |-> <<>>] :
                 cs \in LoopClips, os \in {<<>>, <<BadMessage>>}, ds \in {<<>>, <<BadMessage>>}}
    /\ ts = [t \in Traces |-> IF \E i \in 1..Len(q.clips) : q.clips[i] = ClipEvent(t)
                              THEN [TraceTimestamps EXCEPT !.clip_ts = Some(StartTime)]
                              ELSE Absent]
    /\ op = [name |-> "init"]
    /\ ret = None
    /\ events = <<>>
    /\ next_id = 1
    /\ added = <<>>
    /\ fired = [k \in WdKeys |-> 0]
    /\ next_tick = StartTime
    /\ last_tick = 0
    /\ flights = [k \in WdKeys |-> NoFlight]
    /\ last_emit = [k \in ThinkerKeys |-> 0]
    /\ doer_last = EmptyDict
    /\ use_gemini \in BOOLEAN
    /\ gameday_force = TRUE
    /\ simulated_down = FALSE
    /\ runs = [t \in Traces |-> NoRun]
    /\ gameday_enabled = TRUE
    /\ scenario = "none"
    /\ since = StartTime
    /\ pub = [t \in Topics |-> <<>>]
    /\ got = [t \in Topics |-> <<>>]
    /\ alive = [st \in Stages |-> TRUE]
    /\ caught = [st \in Stages |-> 0]
    /\ InitThreads

\* one iteration of ObserverAgent.run with a message on the topic
LoopObserver ==
    /\ alive.observer
    /\ q.clips # <<>>
    /\ IF ~Valid(Head(q.clips))
       THEN /\ q' = [q EXCEPT !.clips = Tail(@)]
            /\ RunLoop("observer", "ValidationError")
            /\ UNCHANGED <<inflight, ts, events, next_id>>
       ELSE \E inp \in ObserverInputs, exc \in {NoExc, "RuntimeError"} :
               /\ handle_clip(Head(q.clips), inp)
               /\ RunLoop("observer", exc)
    /\ UNCHANGED <<now, op, ret, added, wdVars, last_emit, doer_last, use_gemini, gameday_force,
                   simulated_down, runs, ctlVars, busVars, thrVars>>

\* one iteration of ThinkerAgent.run with a message on the topic
LoopThinker ==
    /\ alive.thinker
    /\ q.observations # <<>>
    /\ IF ~Valid(Head(q.observations))
       THEN /\ q' = [q EXCEPT !.observations = Tail(@)]
            /\ RunLoop("thinker", "ValidationError")
            /\ UNCHANGED <<inflight, ts, events, next_id, last_emit, runs>>
       ELSE \E llm \in CoolLlmInputs, exc \in {NoExc, "RuntimeError"} :
               /\ handle_observation(Head(q.observations),
                                     [raised |-> FALSE, hits |-> 2, lat_ms |-> 0], llm)
               /\ RunLoop("thinker", exc)
    /\ UNCHANGED <<now, op, ret, added, wdVars, doer_last, use_gemini, gameday_force,
                   simulated_down, ctlVars, busVars, thrVars>>

\* one iteration of DoerAgent.run with a message on the topic
LoopDoer ==
    /\ alive.doer
    /\ q.decisions # <<>>
    /\ IF ~Valid(Head(q.decisions))
       THEN /\ q' = [q EXCEPT !.decisions = Tail(@)]
            /\ RunLoop("doer", "ValidationError")
            /\ UNCHANGED <<inflight, events, next_id, doer_last, simulated_down, runs>>
       ELSE \E llm \in DoerLlmInputs, exc \in {NoExc, "RuntimeError"} :
               /\ handle_decision(Head(q.decisions), llm, 0)
               /\ RunLoop("doer", exc)
    /\ UNCHANGED <<now, ts, op, ret, added, wdVars, last_emit, use_gemini, gameday_force,
                   ctlVars, busVars, thrVars>>

NextLoops == LoopObserver \/ LoopThinker \/ LoopDoer

SpecLoops == InitLoops /\ [][NextLoops]_vars

\* the topic a stage consumes
TopicOf(queues, st) ==
    IF st = "observer" THEN queues.clips
    ELSE IF st = "thinker" THEN queues.observations ELSE queues.decisions

\* C19: a message whose processing raises (in validation or in the
\* handler's cleanup) never stops a stage: the loop of every stage is still
\* running after any step, and a step in which a loop catches an exception
\* removes only the message it was handling, so the next message of the
\* topic is the one the loop takes next.
ThmC19 ==
    /\ [](\A st \in Stages : alive[st])
    /\ [][\A st \in Stages :
             caught'[st] > caught[st] =>
                /\ alive'[st]
                /\ TopicOf(q', st) = Tail(TopicOf(q, st))]_vars

\* the Thinker's loop caught the exception of a bad message and went on to
\* publish a decision for the next one; the Observer's loop caught one too
WitC19 ==
    /\ caught.thinker >= 1
    /\ caught.observer >= 1
    /\ Published("t1")
    /\ \A st \in Stages : alive[st]

(***************************************************************************)
(* SpecRecent: recent(limit) on buffers of every fill level                *)
(***************************************************************************)
\* limits a caller may pass: negative, zero, one, fewer than the buffer
\* holds, more than it can hold
LimitInputs == {0 - 1, 0, 1, 2, max_events + 1}

RecentAdd ==
    /\ Len(added) < MaxRecentAdds
    /\ \E kind \in {"decision", "observation"} :
          add(kind, "t1", Payload("", EmptyStr, NoAction))
    /\ op' = [name |-> "add", limit |-> 0]
    /\ ret' = None
    /\ UNCHANGED <<now, inflight, ts, wdVars, pipeVars, extVars>>

RecentCall ==
    /\ \E limit \in LimitInputs :
          /\ op' = [name |-> "recent", limit |-> limit]
          /\ ret' = Some(recent(events, limit))
    /\ UNCHANGED <<now, inflight, ts, auditVars, wdVars, pipeVars, extVars>>

NextRecent == RecentAdd \/ RecentCall

SpecRecent == InitMarks /\ [][NextRecent]_vars

\* C22 (as stated): recent(limit) returns at most limit records, the most
\* recent ones in the buffer, newest first, for every integer limit.
CexC22 ==
    (op.name = "recent" /\ ret # None) =>
        LET r == ret.val
            n == Len(events)
        IN  /\ Len(r) <= op.limit
            /\ Len(r) <= n
            /\ \A i \in 1..Len(r) : r[i] = events[n - i + 1]

\* the audit records the Thinker added for a trace, by event name
EventsOf(t, event) == SelectSeq(runs[t].thinker_recs, LAMBDA r : r[3].event = event)

\* C30: when the Thinker's model output cannot be parsed, the Thinker takes
\* the fallback (violation false, no actions): it publishes no decision, so
\* nothing of the trace reaches the Doer or the actions topic, it records no
\* thinker_exception, and the stage ends with its stage_end record and with
\* its in-flight entry removed.
ThmC30 ==
    \A t \in Traces :
        runs[t].unparsed =>
            /\ runs[t].thinker = "no_decision"
            /\ runs[t].rec = NoAction
            /\ \A i \in 1..Len(q.decisions) : q.decisions[i].trace_id # t
            /\ ActionsOf(t) = <<>>
            /\ runs[t].doer = "none"
            /\ ts[t].dec_ts = None
            /\ EventsOf(t, "thinker_exception") = <<>>
            /\ Len(EventsOf(t, "llm_call")) = 1
            /\ Len(EventsOf(t, "stage_start")) = 1
            /\ Len(EventsOf(t, "stage_end")) = 1
            /\ StageKey(t, "thinker") \notin InflightKeys(inflight)

\* the output for one trace could not be parsed, and the Thinker went on to
\* publish a decision for the next trace
WitC30 ==
    /\ runs["t1"].unparsed
    /\ runs["t1"].thinker = "no_decision"
    /\ runs["t2"].thinker = "published"

(***************************************************************************)
(* SpecTick: the watchdog polls while the Doer's stages and a stage        *)
(* without a threshold begin and end; emitting a breach may raise          *)
(***************************************************************************)
\* the doer stage and its nested dispatcher stage of one trace, and a stage
\* name SLO_BY_STAGE does not list
TickKeys == {StageKey("t1", "doer"), StageKey("t1", "dispatcher"), StageKey("t2", "ingest")}

InitTick ==
    /\ now = StartTime
    /\ inflight = <<>>
    /\ ts = [t \in Traces |-> Absent]
    /\ op = [name |-> "init"]
    /\ ret = None
    /\ events = <<>>
    /\ next_id = 1
    /\ added = <<>>
    /\ fired = [k \in TickKeys |-> 0]
    /\ next_tick = StartTime
    /\ last_tick = 0
    /\ flights = [k \in WdKeys |-> NoFlight]
    /\ q = [clips |-> <<>>, observations |-> <<>>, decisions |-> <<>>, actions |-> <<>>]
    /\ last_emit = [k \in ThinkerKeys |-> 0]
    /\ doer_last = EmptyDict
    /\ use_gemini = TRUE
    /\ gameday_force = TRUE
    /\ simulated_down = FALSE
    /\ runs = [t \in Traces |-> NoRun]
    /\ gameday_enabled = TRUE
    /\ scenario = "none"
    /\ since = StartTime
    /\ pub = [t \in Topics |-> <<>>]
    /\ got = [t \in Topics |-> <<>>]
    /\ alive = [st \in Stages |-> TRUE]
    /\ caught = [st \in Stages |-> 0]
    /\ InitThreads

\* time passes until the watchdog wakes up
TkAdvance ==
    /\ now < next_tick
    /\ now < StartTime + Ms(TkMaxMs)
    /\ now' = next_tick
    /\ UNCHANGED <<stateVars, auditVars, wdVars, pipeVars, extVars>>

TkBegin ==
    /\ now <= StartTime + Ms(TkBeginWindowMs)
    /\ \E k \in TickKeys :
          /\ k \notin InflightKeys(inflight)
          /\ begin_stage(k[1], k[2], ClipIndex(k[1]))
    /\ UNCHANGED <<now, ts, auditVars, wdVars, pipeVars, extVars>>

TkEnd ==
    /\ \E k \in TickKeys :
          /\ k \in InflightKeys(inflight)
          /\ end_stage(k)
    /\ UNCHANGED <<now, ts, auditVars, wdVars, pipeVars, extVars>>

\* the index of the first snapshot entry that fires, 0 when none does
FirstFiring(snapshot, at, frd) ==
    LET I == {i \in 1..Len(snapshot) : Fires(snapshot[i], at, frd)}
    IN  IF I = {} THEN 0 ELSE CHOOSE i \in I : \A j \in I : i <= j

\* the part of the snapshot the for loop of _tick gets through: all of it,
\* or, when metric_count raises for the first entry that fires (its record
\* is added by then), the entries up to that one
TickHandled(snapshot, at, frd, raises) ==
    IF raises THEN SubSeq(snapshot, 1, FirstFiring(snapshot, at, frd)) ELSE snapshot

\* one iteration of Watchdog.run: _tick at the wake-up time, then
\* time.sleep(0.25); an exception leaving _tick leaves run as well
RunEnds(raises) == raises

TkTick ==
    /\ "watchdog" \notin exited
    /\ now = next_tick
    /\ now < StartTime + Ms(TkMaxMs)
    /\ \E raises \in BOOLEAN :
          /\ raises => FirstFiring(inflight, now, fired) > 0
          /\ \E handled \in {TickHandled(inflight, now, fired, raises)} :
                /\ fired' = TickFired(handled, now, fired)
                /\ add_all(TickRecords(handled, now, fired))
          /\ exited' = IF RunEnds(raises) THEN exited \cup {"watchdog"} ELSE exited
          /\ op' = [name |-> "_tick", raised |-> raises]
    /\ last_tick' = now
    /\ next_tick' = now + Ms(PollMs)
    /\ UNCHANGED <<now, inflight, ts, ret, flights, pipeVars, ctlVars, busVars, loopVars,
                   stop_set, thr, lock, hist>>

NextTick == TkAdvance \/ TkBegin \/ TkEnd \/ TkTick

SpecTick == InitTick /\ [][NextTick]_vars

\* the records added by a step
NewRecords == SubSeq(added', Len(added) + 1, Len(added'))

\* C21 (as stated): when handling one in-flight entry fails during a tick,
\* the remaining entries of that tick are still checked (every entry of the
\* snapshot that is over its SLO gets its breach record), and the polling
\* loop keeps running.
CexC21 ==
    /\ []("watchdog" \notin exited)
    /\ [][last_tick' # last_tick =>
             \A i \in 1..Len(inflight) :
                 Fires(inflight[i], now, fired) =>
                    \E j \in 1..Len(NewRecords) :
                        /\ NewRecords[j].kind = "stage_timeout"
                        /\ NewRecords[j].trace_id = inflight[i].trace_id
                        /\ NewRecords[j].payload.stage = inflight[i].stage]_vars

\* C28: a breach record is added only by a tick, only for a key that is in
\* the in-flight map at that tick, whose stage has an SLO and whose elapsed
\* time at the tick is at least that SLO; the record carries that elapsed
\* time and SLO.
ThmC28 ==
    [][\A j \in 1..Len(NewRecords) :
          LET r == NewRecords[j]
              k == StageKey(r.trace_id, r.payload.stage)
          IN  r.kind = "stage_timeout" =>
                 /\ last_tick' = now
                 /\ k \in InflightKeys(inflight)
                 /\ r.payload.stage \in {"observer", "thinker", "doer", "dispatcher"}
                 /\ r.payload.elapsed_ms = TruncMs(now - DictGet(inflight, k).val.start_ts)
                 /\ r.payload.slo_ms = SloMs(r.payload.stage)
                 /\ r.payload.elapsed_ms >= r.payload.slo_ms]_vars

BreachCount(t, stage) ==
    Cardinality({i \in 1..Len(added) : /\ added[i].kind = "stage_timeout"
                                       /\ added[i].trace_id = t
                                       /\ added[i].payload.stage = stage})

\* the dispatcher stage fired, the stage without a threshold has been in
\* flight longer than every SLO of the tick and did not, and the doer stage
\* has just ended, at its SLO and before the tick of that instant, without
\* a breach
WitC28 ==
    /\ BreachCount("t1", "dispatcher") = 1
    /\ StageKey("t2", "ingest") \in InflightKeys(inflight)
    /\ now - DictGet(inflight, StageKey("t2", "ingest")).val.start_ts >= Ms(slo_doer_ms)
    /\ BreachCount("t2", "ingest") = 0
    /\ op.name = "end_stage"
    /\ op.key = StageKey("t1", "doer")
    /\ ret # None
    /\ now - ret.val.start_ts >= Ms(slo_doer_ms)
    /\ BreachCount("t1", "doer") = 0

(***************************************************************************)
(* SpecOutage: the scenario is changed through the controller while the    *)
(* Thinker and the Doer handle the observations of two clips               *)
(***************************************************************************)
\* two violations with different rules and different action types, so that
\* neither the Thinker's cooldown nor the Doer's dedup holds the second back
OutageQueue == <<ObservationEvent("t1", SigPanel), ObservationEvent("t2", SigWalkway)>>
OutageLlm(trace_id) ==
    IF trace_id = "t1"
    THEN LlmOut(TRUE, <<RawAction(RawStop, Str(P1), "console", "stop")>>)
    ELSE LlmOut(TRUE, <<RawAction(Str(ALERT), Str(P2), "console", "check")>>)

InitOutage ==
    /\ now = StartTime
    /\ inflight = <<>>
    /\ q = [clips |-> <<>>, observations |-> OutageQueue, decisions |-> <<>>, actions |-> <<>>]
    /\ ts = [t \in Traces |-> IF t \in {"t1", "t2"} THEN ObservedAt(StartTime) ELSE Absent]
    /\ op = [name |-> "init", arg |-> ""]
    /\ ret = None
    /\ events = <<>>
    /\ next_id = 1
    /\ added = <<>>
    /\ fired = [k \in WdKeys |-> 0]
    /\ next_tick = StartTime
    /\ last_tick = 0
    /\ flights = [k \in WdKeys |-> NoFlight]
    /\ last_emit = [k \in ThinkerKeys |-> 0]
    /\ doer_last = EmptyDict
    /\ use_gemini = TRUE
    /\ gameday_force \in BOOLEAN
    /\ simulated_down = FALSE
    /\ runs = [t \in Traces |-> NoRun]
    /\ gameday_enabled \in BOOLEAN
    /\ \E configured \in {"none", "dispatcher_outage"} :
          scenario = InitialScenario(gameday_enabled, configured)
    /\ since = StartTime
    /\ pub = [t \in Topics |-> <<>>]
    /\ got = [t \in Topics |-> <<>>]
    /\ alive = [st \in Stages |-> TRUE]
    /\ caught = [st \in Stages |-> 0]
    /\ InitThreads

\* POST /gameday/run
OutSetScenario ==
    /\ Len(added) < MaxOutageCalls
    /\ \E s \in {"none", "dispatcher_outage", "injection"} :
          /\ set_scenario(s)
          /\ op' = [name |-> "set_scenario", arg |-> s]
    /\ UNCHANGED <<now, inflight, ts, ret, wdVars, pipeVars, gameday_enabled, busVars, loopVars,
                   thrVars>>

\* POST /gameday/reset
OutReset ==
    /\ Len(added) < MaxOutageCalls
    /\ reset
    /\ op' = [name |-> "reset", arg |-> ""]
    /\ UNCHANGED <<now, inflight, ts, ret, wdVars, pipeVars, gameday_enabled, busVars, loopVars,
                   thrVars>>

OutThinker ==
    /\ q.observations # <<>>
    /\ handle_observation(Head(q.observations), [raised |-> FALSE, hits |-> 2, lat_ms |-> 0],
                          OutageLlm(Head(q.observations).trace_id))
    /\ UNCHANGED <<now, op, ret, added, wdVars, doer_last, use_gemini, gameday_force,
                   simulated_down, extVars>>

OutDoer ==
    /\ q.decisions # <<>>
    /\ \E llm \in DoerLlmInputs : handle_decision(Head(q.decisions), llm, 0)
    /\ UNCHANGED <<now, ts, op, ret, added, wdVars, last_emit, use_gemini, gameday_force, extVars>>

NextOutage == OutSetScenario \/ OutReset \/ OutThinker \/ OutDoer

SpecOutage == InitOutage /\ [][NextOutage]_vars

\* C29: every decision the Doer handles sets the delivery tool's
\* forced-unavailable mode to exactly (dispatcher_outage active and force
\* enabled) as the controller says at that moment, and its dispatch runs
\* under that mode: it raises exactly when the mode is on; so a decision
\* handled after reset() or after a change to another scenario is
\* dispatched with the tool available.
ThmC29 ==
    [][\A t \in Traces :
          (runs[t].doer = "none" /\ runs'[t].doer # "none") =>
             /\ simulated_down' = (gameday_enabled /\ scenario = "dispatcher_outage" /\ gameday_force)
             /\ runs'[t].dispatch # "none" =>
                   /\ runs'[t].dispatch = "dependency" <=> simulated_down'
                   /\ runs'[t].dispatch = "ok" <=> ~simulated_down'
             /\ scenario # "dispatcher_outage" => runs'[t].dispatch \in {"ok", "none"}]_vars

\* the first decision was dispatched during the outage and failed, then
\* reset() was called, and the second decision was dispatched and sent
WitC29 ==
    /\ runs["t1"].dispatch = "dependency"
    /\ op.name = "reset"
    /\ runs["t2"].dispatch = "ok"
    /\ ~simulated_down

(***************************************************************************)
(* SpecState: threads call begin_stage, end_stage and mark at the same     *)
(* time; every call is a sequence of steps, the steps of its with block    *)
(* taken while the thread holds RuntimeState._lock                         *)
(***************************************************************************)
\* with self._lock: a thread enters when no thread holds the lock
CanAcquireAlways(holder) == TRUE
CanAcquire(holder) == holder = "free"

StateThreads == {"producer", "observer", "thinker"}

\* the calls of each thread on the state of one trace, in program order:
\* the producer marks the clip; a stage begins its stage, marks its
\* milestone and ends its stage
StateProgram(th) ==
    IF th = "producer"
    THEN <<[name |-> "mark", trace_id |-> "t1", stage |-> "", kind |-> "clip"]>>
    ELSE <<[name |-> "begin_stage", trace_id |-> "t1", stage |-> th, kind |-> ""],
           [name |-> "mark", trace_id |-> "t1", stage |-> "",
            kind |-> IF th = "observer" THEN "observation" ELSE "decision"],
           [name |-> "end_stage", trace_id |-> "t1", stage |-> th, kind |-> ""]>>
StateCalls(th) == {StateProgram(th)[i] : i \in 1..Len(StateProgram(th))}

Running(call, n) == [pc |-> "wait", call |-> call, at |-> 0, found |-> FALSE, n |-> n]
CallsDone(th) == IF thr[th] = Idle THEN 0 ELSE thr[th].n

otherVars == <<op, ret, auditVars, wdVars, pipeVars, ctlVars, busVars, loopVars, stop_set, exited>>

StTick ==
    /\ now < StartTime + MaxStateTicks
    /\ now' = now + 1
    /\ UNCHANGED <<inflight, ts, otherVars, thr, lock, hist>>

\* a thread enters a call; mark reads time.time() before it asks for the lock
StInvoke ==
    /\ \E th \in StateThreads :
          /\ thr[th] = Idle \/ thr[th].pc = "idle"
          /\ CallsDone(th) < Min(MaxStateCalls, Len(StateProgram(th)))
          /\ LET call == StateProgram(th)[CallsDone(th) + 1]
             IN  thr' = [thr EXCEPT ![th] =
                           [Running(call, CallsDone(th)) EXCEPT
                               !.at = IF call.name = "mark" THEN now ELSE 0]]
    /\ UNCHANGED <<now, inflight, ts, otherVars, lock, hist>>

StAcquire ==
    /\ \E th \in StateThreads :
          /\ thr[th] # Idle
          /\ thr[th].pc = "wait"
          /\ CanAcquire(lock.state)
          /\ lock' = [lock EXCEPT !.state = th]
          /\ thr' = [thr EXCEPT ![th].pc = "locked"]
    /\ UNCHANGED <<now, inflight, ts, otherVars, hist>>

\* the first statement of the with block: the whole effect of begin_stage
\* (with start_ts = time.time() read there) and of end_stage, and the
\* self.ts.get(trace_id) or TraceTimestamps() of mark
StBody ==
    /\ \E th \in StateThreads :
          /\ thr[th] # Idle
          /\ thr[th].pc = "locked"
          /\ LET c == thr[th].call
             IN  IF c.name = "begin_stage" THEN
                     /\ inflight' = DictSet(inflight,
                                        StageInFlight(c.trace_id, c.stage, ClipIndex(c.trace_id), now))
                     /\ hist' = Append(hist, [call |-> c, at |-> now])
                     /\ thr' = [thr EXCEPT ![th].pc = "release"]
                     /\ ts' = ts
                 ELSE IF c.name = "end_stage" THEN
                     /\ inflight' = DictPop(inflight, StageKey(c.trace_id, c.stage))
                     /\ hist' = Append(hist, [call |-> c, at |-> now])
                     /\ thr' = [thr EXCEPT ![th].pc = "release"]
                     /\ ts' = ts
                 ELSE
                     /\ thr' = [thr EXCEPT ![th].pc = "read", ![th].found = ts[c.trace_id] # Absent]
                     /\ UNCHANGED <<inflight, ts, hist>>
    /\ UNCHANGED <<now, otherVars, lock>>

\* the rest of the with block of mark: set the field of t and store t; t is
\* the object found in the dict, or a new one
StStore ==
    /\ \E th \in StateThreads :
          /\ thr[th] # Idle
          /\ thr[th].pc = "read"
          /\ LET c == thr[th].call
                 t == IF thr[th].found THEN ts[c.trace_id] ELSE TraceTimestamps
             IN  /\ ts' = [ts EXCEPT ![c.trace_id] = Marked(t, c.kind, thr[th].at)]
                 /\ hist' = Append(hist, [call |-> c, at |-> thr[th].at])
          /\ thr' = [thr EXCEPT ![th].pc = "release"]
    /\ UNCHANGED <<now, inflight, otherVars, lock>>

\* the end of the with block
StRelease ==
    /\ \E th \in StateThreads :
          /\ thr[th] # Idle
          /\ thr[th].pc = "release"
          /\ lock' = [lock EXCEPT !.state = "free"]
          /\ thr' = [thr EXCEPT ![th].pc = "idle", ![th].n = @ + 1]
    /\ UNCHANGED <<now, inflight, ts, otherVars, hist>>

NextState == StTick \/ StInvoke \/ StAcquire \/ StBody \/ StStore \/ StRelease

SpecState == InitMarks /\ [][NextState]_vars

\* the maps after the calls of h, made one after the other on empty maps
RECURSIVE Replay(_)
Replay(h) ==
    IF h = <<>> THEN [inflight |-> <<>>, ts |-> [t \in Traces |-> Absent]]
    ELSE LET S == Replay(SubSeq(h, 1, Len(h) - 1))
             c == h[Len(h)].call
             at == h[Len(h)].at
             t == IF S.ts[c.trace_id] = Absent THEN TraceTimestamps ELSE S.ts[c.trace_id]
         IN  IF c.name = "begin_stage"
             THEN [S EXCEPT !.inflight = DictSet(@, StageInFlight(c.trace_id, c.stage,
                                                                  ClipIndex(c.trace_id), at))]
             ELSE IF c.name = "end_stage"
             THEN [S EXCEPT !.inflight = DictPop(@, StageKey(c.trace_id, c.stage))]
             ELSE [S EXCEPT !.ts[c.trace_id] = Marked(t, c.kind, at)]

InLock(th) == thr[th] # Idle /\ thr[th].pc \in {"locked", "read", "release"}

\* C23: under any interleaving of begin_stage, end_stage and mark calls of
\* several threads, at most one thread is inside a with block, and the
\* in-flight map and the timestamp map are those of the calls made one after
\* the other, each exactly once, in the order in which they took effect
\* (which is between the call and its return): no begin, end or mark is lost.
ThmC23 ==
    /\ \A a, b \in StateThreads : (InLock(a) /\ InLock(b)) => a = b
    /\ inflight = Replay(hist).inflight
    /\ ts = Replay(hist).ts
    /\ \A th \in StateThreads :
          Cardinality({i \in 1..Len(hist) : hist[i].call \in StateCalls(th)})
             = CallsDone(th) + (IF thr[th] # Idle /\ thr[th].pc = "release" THEN 1 ELSE 0)

\* the clip mark and the observation mark of one trace raced: the observer
\* read its time first and stored last, and both milestones are there
WitC23 ==
    \E i, j \in 1..Len(hist) :
        /\ i < j
        /\ hist[i].call.kind = "clip"
        /\ hist[j].call.kind = "observation"
        /\ hist[j].at < hist[i].at
        /\ ts["t1"].clip_ts = Some(hist[i].at)
        /\ ts["t1"].obs_ts = Some(hist[j].at)
        /\ StageKey("t1", "observer") \in InflightKeys(inflight)

(***************************************************************************)
(* SpecBuffer: two stage threads add audit records while a thread of the   *)
(* web server computes kpi(); every call is a sequence of steps            *)
(***************************************************************************)
\* the records each stage thread adds, in program order
BufferProgram(th) ==
    IF th = "thinker"
    THEN <<<<"decision", Payload("", EmptyStr, NoAction)>>,
           <<"tool_error", Payload("thinker_exception", EmptyStr, NoAction)>>>>
    ELSE <<<<"action", Payload("", SENT, Action(STOP_LINE, P1, "console", "m"))>>,
           <<"action", Payload("", FAILED, Action(ALERT, P2, "pager", "m"))>>>>

BufferThreads == {"thinker", "doer"}

restVars == <<op, ret, wdVars, pipeVars, ctlVars, busVars, loopVars, stop_set, exited>>

BfTick ==
    /\ now < StartTime + MaxBufTicks
    /\ now' = now + 1
    /\ UNCHANGED <<inflight, ts, auditVars, restVars, thr, lock, hist>>

\* add, up to the with block: the record is built, with its ts read from
\* the clock, before the lock is taken
BfBuild ==
    /\ \E th \in BufferThreads :
          /\ thr[th] = Idle \/ thr[th].pc = "idle"
          /\ CallsDone(th) < Len(BufferProgram(th))
          /\ LET inp == BufferProgram(th)[CallsDone(th) + 1]
             IN  thr' = [thr EXCEPT ![th] =
                           [pc |-> "wait", n |-> CallsDone(th),
                            ev |-> AuditEvent(next_id, now, inp[1], "t1", inp[2])]]
    /\ next_id' = next_id + 1
    /\ UNCHANGED <<now, inflight, ts, events, added, restVars, lock, hist>>

\* add, the with block: self._events.append(ev)
BfAppend ==
    /\ \E th \in BufferThreads :
          /\ thr[th] # Idle
          /\ thr[th].pc = "wait"
          /\ CanAcquire(lock.audit)
          /\ events' = DequeAppend(events, thr[th].ev)
          /\ added' = Append(added, thr[th].ev)
          /\ thr' = [thr EXCEPT ![th].pc = "idle", ![th].n = @ + 1]
    /\ UNCHANGED <<now, inflight, ts, next_id, restVars, lock, hist>>

\* the list the statements of kpi() after the with block read: the copy
\* made under the lock
KpiSourceLive(items, buffer) == buffer
KpiSource(items, buffer) == items

\* kpi(), the with block: items = list(self._events)
BfKpiSnapshot ==
    /\ thr["web"] = Idle \/ thr["web"].pc = "idle"
    /\ CallsDone("web") < MaxKpiCalls
    /\ CanAcquire(lock.audit)
    /\ thr' = [thr EXCEPT !["web"] =
                  [pc |-> "filter", n |-> CallsDone("web"), lo |-> Len(added), items |-> events,
                   decisions |-> <<>>, observations |-> <<>>, actions |-> <<>>]]
    /\ UNCHANGED <<now, inflight, ts, auditVars, restVars, lock, hist>>

\* kpi(), lines 55-57: the decisions, observations and actions lists
BfKpiFilter ==
    /\ thr["web"] # Idle
    /\ thr["web"].pc = "filter"
    /\ LET src == KpiSource(thr["web"].items, events)
       IN  thr' = [thr EXCEPT !["web"].pc = "count",
                              !["web"].decisions = OfKind(src, "decision"),
                              !["web"].observations = OfKind(src, "observation"),
                              !["web"].actions = OfKind(src, "action")]
    /\ UNCHANGED <<now, inflight, ts, auditVars, restVars, lock, hist>>

\* kpi(), lines 58-106: the other lists, the loop over actions, the result
BfKpiReturn ==
    /\ thr["web"] # Idle
    /\ thr["web"].pc = "count"
    /\ LET src == KpiSource(thr["web"].items, events)
           w == thr["web"]
       IN  /\ ret' = Some([stop_line |-> TypeCount(w.actions, STOP_LINE),
                           alert |-> TypeCount(w.actions, ALERT),
                           decisions |-> Len(w.decisions),
                           observations |-> Len(w.observations),
                           actions |-> Len(w.actions),
                           action_sent |-> StatusCount(w.actions, SENT),
                           action_failed |-> StatusCount(w.actions, FAILED),
                           action_skipped |-> SkippedCount(w.actions),
                           last_stop_line_ts |-> LastStopTs(w.actions),
                           priorities |-> [P1 |-> PriorityCount(w.actions, P1),
                                           P2 |-> PriorityCount(w.actions, P2),
                                           P3 |-> PriorityCount(w.actions, P3)],
                           tool_errors |-> Len(OfKind(src, "tool_error")),
                           stage_timeouts |-> Len(OfKind(src, "stage_timeout")),
                           security_events |-> Len(OfKind(src, "security"))])
           /\ op' = [name |-> "kpi", lo |-> w.lo, hi |-> Len(added)]
    /\ thr' = [thr EXCEPT !["web"] = [pc |-> "idle", n |-> thr["web"].n + 1]]
    /\ UNCHANGED <<now, inflight, ts, auditVars, wdVars, pipeVars, ctlVars, busVars, loopVars,
                   stop_set, exited, lock, hist>>

NextBuffer == BfTick \/ BfBuild \/ BfAppend \/ BfKpiSnapshot \/ BfKpiFilter \/ BfKpiReturn

SpecBuffer == InitMarks /\ [][NextBuffer]_vars

\* C24 (as stated): in every reachable state, with several threads calling
\* add, the timestamps of the records in the buffer are non-decreasing in
\* buffer order (so recent() returns them in non-increasing order).
CexC24 ==
    /\ \A i, j \in 1..Len(events) : i < j => events[i].ts <= events[j].ts
    /\ LET r == recent(events, max_events)
       IN  \A i, j \in 1..Len(r) : i < j => r[i].ts >= r[j].ts

\* the buffer when n records had been appended
BufferAt(n) == LastItems(SubSeq(added, 1, n), max_events)

\* C25: every count kpi() returns is computed from one and the same buffer
\* contents, those at one instant between the call and its return, whatever
\* records are added while it computes.
ThmC25 ==
    (op.name = "kpi" /\ ret # None) =>
        \E n \in op.lo..op.hi : ret.val = kpi(IF n = 0 THEN <<>> ELSE BufferAt(n))

\* kpi() returned the counts of the buffer at its call although two records,
\* one of them an action, were appended while it computed
WitC25 ==
    /\ op.name = "kpi"
    /\ ret # None
    /\ op.hi >= op.lo + 2
    /\ op.lo >= 1
    /\ ret.val = kpi(BufferAt(op.lo))
    /\ ret.val # kpi(events)
    /\ ret.val.actions # kpi(events).actions

(***************************************************************************)
(* SpecStop: the loops of the stage threads and of the background threads, *)
(* and the stop events they test                                           *)
(***************************************************************************)
LoopThreads == Threads \ {"web"}

\* the threading.Event objects of the program; the janitor tests the
\* producer's event
StopEvents == {"producer", "watchdog", "heartbeat", "pipeline_metrics"}

\* the event a thread's loop condition tests; the stage loops are
\* while True and test none
StopEventOf(th) ==
    CASE th \in {"producer", "janitor"} -> "producer"
      [] th \in {"watchdog", "heartbeat", "pipeline_metrics"} -> th
      [] OTHER -> "none"

stopRest == <<now, inflight, ts, op, ret, auditVars, wdVars, pipeVars, ctlVars, busVars,
              loopVars, lock, hist>>

\* stop(): self._stop.set()
StopSignal ==
    /\ \E ev \in StopEvents :
          /\ ev \notin stop_set
          /\ stop_set' = stop_set \cup {ev}
    /\ UNCHANGED <<exited, thr, stopRest>>

\* the loop condition of one thread, evaluated between two iterations
LoopCheckOf(th) ==
    /\ th \notin exited
    /\ thr[th].pc = "idle"
    /\ IF StopEventOf(th) \in stop_set
       THEN /\ exited' = exited \cup {th}
            /\ thr' = thr
       ELSE /\ thr' = [thr EXCEPT ![th] = [pc |-> "body"]]
            /\ exited' = exited
    /\ UNCHANGED <<stop_set, stopRest>>

\* one iteration of the loop body of one thread; the producer's loop also
\* ends when the video has no clip left
LoopBodyOf(th) ==
    /\ th \notin exited
    /\ thr[th].pc = "body"
    /\ \/ /\ thr' = [thr EXCEPT ![th] = Idle]
          /\ exited' = exited
       \/ /\ th = "producer"
          /\ thr' = [thr EXCEPT ![th] = Idle]
          /\ exited' = exited \cup {th}
    /\ UNCHANGED <<stop_set, stopRest>>

LoopCheck == \E th \in LoopThreads : LoopCheckOf(th)
LoopBody == \E th \in LoopThreads : LoopBodyOf(th)

NextStop == StopSignal \/ LoopCheck \/ LoopBody

SpecStop == InitMarks /\ [][NextStop]_vars

\* every thread that has not exited goes on running
SpecStopFair ==
    /\ SpecStop
    /\ \A th \in LoopThreads : WF_vars(LoopCheckOf(th)) /\ WF_vars(LoopBodyOf(th))

\* C26 (as stated): once every stop event is set, every stage loop and
\* every background thread eventually leaves its loop.
CexC26 == (stop_set = StopEvents) ~> (exited = LoopThreads)

(***************************************************************************)
(* SpecInflight: the three handlers step by step, each statement of a      *)
(* try body, an except handler or a finally block able to raise            *)
(***************************************************************************)
ConsumesFrom(st) ==
    CASE st = "observer" -> "clips" [] st = "thinker" -> "observations" [] OTHER -> "decisions"
PublishesTo(st) ==
    CASE st = "observer" -> "observations" [] st = "thinker" -> "decisions" [] OTHER -> "actions"

InitInflight ==
    /\ now = StartTime
    /\ inflight = <<>>
    /\ ts = [t \in Traces |-> Absent]
    /\ op = [name |-> "init"]
    /\ ret = None
    /\ events = <<>>
    /\ next_id = 1
    /\ added = <<>>
    /\ fired = [k \in WdKeys |-> 0]
    /\ next_tick = StartTime
    /\ last_tick = 0
    /\ flights = [k \in WdKeys |-> NoFlight]
    /\ q = [clips |-> <<[trace_id |-> "t1"], [trace_id |-> "t2"]>>,
            observations |-> <<>>, decisions |-> <<>>, actions |-> <<>>]
    /\ last_emit = [k \in ThinkerKeys |-> 0]
    /\ doer_last = EmptyDict
    /\ use_gemini = TRUE
    /\ gameday_force = TRUE
    /\ simulated_down = FALSE
    /\ runs = [t \in Traces |-> NoRun]
    /\ gameday_enabled = TRUE
    /\ scenario = "none"
    /\ since = StartTime
    /\ pub = [t \in Topics |-> <<>>]
    /\ got = [t \in Topics |-> <<>>]
    /\ alive = [st \in Stages |-> TRUE]
    /\ caught = [st \in Stages |-> 0]
    /\ InitThreads

hfRest == <<now, ts, op, ret, auditVars, wdVars, last_emit, doer_last, use_gemini, gameday_force,
            simulated_down, runs, ctlVars, busVars, loopVars, stop_set, exited, lock>>

\* where control goes when the try statement is left with an outcome
\* ("ok": the body ran to its end, "early": a return inside the body,
\* "raise": an exception, handled by the except clause): to the finally
\* block, whatever the outcome
AfterTryNoFinally(outcome) == IF outcome = "ok" THEN "finally" ELSE "returned"
AfterTry(outcome) == "finally"

\* run() consumes a message and the handler runs up to its try statement:
\* the event is built and begin_stage called
HfBegin ==
    /\ \E st \in Stages :
          /\ thr[st].pc = "idle"
          /\ q[ConsumesFrom(st)] # <<>>
          /\ LET t == Head(q[ConsumesFrom(st)]).trace_id
             IN  /\ inflight' = DictSet(inflight, StageInFlight(t, st, 0, now))
                 /\ thr' = [thr EXCEPT ![st] = [pc |-> "try", t |-> t, outcome |-> "ok",
                                               raised |-> FALSE, dispatched |-> FALSE]]
          /\ q' = [q EXCEPT ![ConsumesFrom(st)] = Tail(@)]
    /\ UNCHANGED <<hist, hfRest>>

\* the try body up to the publish (observer, thinker) or up to the nested
\* dispatcher stage (doer): it returns early, raises, or goes on
HfTry ==
    /\ \E st \in Stages :
          /\ thr[st].pc = "try"
          /\ \/ /\ thr' = [thr EXCEPT ![st].pc = AfterTry("early"), ![st].outcome = "early"]
                /\ UNCHANGED <<inflight, q>>
             \/ /\ thr' = [thr EXCEPT ![st].pc = "except", ![st].outcome = "raise"]
                /\ UNCHANGED <<inflight, q>>
             \/ /\ st # "doer"
                /\ q' = [q EXCEPT ![PublishesTo(st)] = Append(@, [trace_id |-> thr[st].t])]
                /\ thr' = [thr EXCEPT ![st].pc = "tail"]
                /\ UNCHANGED inflight
             \/ /\ st = "doer"
                /\ inflight' = DictSet(inflight, StageInFlight(thr[st].t, "dispatcher", 0, now))
                /\ thr' = [thr EXCEPT ![st].pc = "dispatching", ![st].dispatched = TRUE]
                /\ UNCHANGED q
             \/ /\ st = "doer"
                /\ q' = [q EXCEPT !.actions = Append(@, [trace_id |-> thr[st].t])]
                /\ thr' = [thr EXCEPT ![st].pc = "tail"]
                /\ UNCHANGED inflight
    /\ UNCHANGED <<hist, hfRest>>

\* doer, lines 255-259: call_tool returns a result for a dispatcher that
\* answers and for one that raises, then end_stage(disp_key); the action
\* event is published
HfDispatch ==
    /\ thr["doer"].pc = "dispatching"
    /\ inflight' = DictPop(inflight, StageKey(thr["doer"].t, "dispatcher"))
    /\ q' = [q EXCEPT !.actions = Append(@, [trace_id |-> thr["doer"].t])]
    /\ thr' = [thr EXCEPT !["doer"].pc = "tail"]
    /\ UNCHANGED <<hist, hfRest>>

\* the rest of the try body: it ends or raises
HfTail ==
    /\ \E st \in Stages :
          /\ thr[st].pc = "tail"
          /\ \/ thr' = [thr EXCEPT ![st].pc = AfterTry("ok")]
             \/ thr' = [thr EXCEPT ![st].pc = "except", ![st].outcome = "raise"]
    /\ UNCHANGED <<inflight, q, hist, hfRest>>

\* the except clause: its statements end, or one of them raises and the
\* exception leaves the handler after the finally block
HfExcept ==
    /\ \E st \in Stages, again \in BOOLEAN :
          /\ thr[st].pc = "except"
          /\ thr' = [thr EXCEPT ![st].pc = AfterTry("raise"), ![st].raised = again]
    /\ UNCHANGED <<inflight, q, hist, hfRest>>

\* the finally block: self.state.end_stage(stage_key) is its first
\* statement; one of the later ones may raise
HfFinally ==
    /\ \E st \in Stages, again \in BOOLEAN :
          /\ thr[st].pc = "finally"
          /\ inflight' = DictPop(inflight, StageKey(thr[st].t, st))
          /\ thr' = [thr EXCEPT ![st].pc = "returned", ![st].raised = @ \/ again]
    /\ UNCHANGED <<q, hist, hfRest>>

\* the handler returns to run(), or its exception is caught there
HfReturn ==
    /\ \E st \in Stages :
          /\ thr[st].pc = "returned"
          /\ hist' = Append(hist, [stage |-> st, trace_id |-> thr[st].t])
          /\ op' = [name |-> "handled", stage |-> st, trace_id |-> thr[st].t,
                    outcome |-> thr[st].outcome, raised |-> thr[st].raised,
                    dispatched |-> thr[st].dispatched]
          /\ thr' = [thr EXCEPT ![st] = Idle]
    /\ UNCHANGED <<inflight, q, now, ts, ret, auditVars, wdVars, last_emit, doer_last, use_gemini,
                   gameday_force, simulated_down, runs, ctlVars, busVars, loopVars, stop_set,
                   exited, lock>>

NextInflight == HfBegin \/ HfTry \/ HfDispatch \/ HfTail \/ HfExcept \/ HfFinally \/ HfReturn

SpecInflight == InitInflight /\ [][NextInflight]_vars

\* C27: when a handler has returned or raised, the in-flight map holds no
\* entry for its trace and stage, nor, for the doer, for the nested
\* dispatcher stage; a stage that handles no message has no entry at all.
ThmC27 ==
    /\ \A i \in 1..Len(hist) :
          /\ StageKey(hist[i].trace_id, hist[i].stage) \notin InflightKeys(inflight)
          /\ hist[i].stage = "doer" =>
                StageKey(hist[i].trace_id, "dispatcher") \notin InflightKeys(inflight)
    /\ \A st \in Stages :
          thr[st].pc = "idle" => \A i \in 1..Len(inflight) : inflight[i].stage # st
    /\ \A i \in 1..Len(inflight) :
          inflight[i].stage = "dispatcher" => thr["doer"].pc = "dispatching"

\* the doer's handler raised after it had opened and closed the dispatcher
\* stage, while the handler of another stage is in flight
WitC27 ==
    /\ op.name = "handled"
    /\ op.stage = "doer"
    /\ op.dispatched
    /\ op.raised
    /\ inflight # <<>>
    /\ Len(hist) >= 4

(***************************************************************************)
(* SpecDedup: three decisions reach the Doer over twenty seconds           *)
(***************************************************************************)
LowStr == Str(<<"L","o","w">>)

\* a decision as the Thinker publishes it, for a severity and an action type
Decision(t, sev, type) ==
    DecisionEvent(ObservationEvent(t, SigPanel), "panel_open_while_operating",
                  [LlmOut(TRUE, <<>>).out EXCEPT !.severity = sev],
                  Action(type, P2, "console", "check"), 1)

\* the decisions topic: the second decision has the key of the first, or
\* another action type, or another severity
DedupQueues ==
    {<<Decision("t1", HighStr, ALERT), d, Decision("t3", HighStr, ALERT)>> :
        d \in {Decision("t2", HighStr, ALERT), Decision("t2", HighStr, STOP_LINE),
               Decision("t2", LowStr, ALERT)}}

InitDedup ==
    /\ now = StartTime
    /\ inflight = <<>>
    /\ q \in {[clips |-> <<>>, observations |-> <<>>, decisions |-> d, actions |-> <<>>] : d \in DedupQueues}
    /\ ts = [t \in Traces |-> [ObservedAt(StartTime) EXCEPT !.dec_ts = Some(StartTime)]]
    /\ op = [name |-> "init"]
    /\ ret = None
    /\ events = <<>>
    /\ next_id = 1
    /\ added = <<>>
    /\ fired = [k \in WdKeys |-> 0]
    /\ next_tick = StartTime
    /\ last_tick = 0
    /\ flights = [k \in WdKeys |-> NoFlight]
    /\ last_emit = [k \in ThinkerKeys |-> 0]
    /\ doer_last = EmptyDict
    /\ use_gemini \in BOOLEAN
    /\ gameday_force = TRUE
    /\ simulated_down = FALSE
    /\ runs = [t \in Traces |-> NoRun]
    /\ gameday_enabled = TRUE
    /\ scenario \in {"none", "dispatcher_outage"}
    /\ since = StartTime
    /\ pub = [t \in Topics |-> <<>>]
    /\ got = [t \in Topics |-> <<>>]
    /\ alive = [st \in Stages |-> TRUE]
    /\ caught = [st \in Stages |-> 0]
    /\ InitThreads

DedupAdvance ==
    /\ now < StartTime + Ms(DedupMaxMs)
    /\ now' = now + Ms(DedupStepMs)
    /\ UNCHANGED <<stateVars, auditVars, wdVars, pipeVars, extVars>>

\* one iteration of DoerAgent.run with a message on the topic
DedupDoer ==
    /\ q.decisions # <<>>
    /\ \E llm \in DoerLlmInputs, lat_ms \in DispatchLatencies :
          handle_decision(Head(q.decisions), llm, lat_ms)
    /\ UNCHANGED <<now, ts, op, ret, added, wdVars, last_emit, use_gemini, gameday_force, extVars>>

NextDedup == DedupAdvance \/ DedupDoer

SpecDedup == InitDedup /\ [][NextDedup]_vars

DedupWindow == Ms(dedup_cooldown_s * 1000)

\* the Doer reached its dedup gate for the decision of trace t
AtGate(t) == runs[t].doer \in {"sent", "failed", "skipped"}

\* the Doer let the action of trace t through its gate
LetThrough(t) == runs[t].doer \in {"sent", "failed"}

\* u was handled before t, with the same camera+severity+action-type key
EarlierSameKey(u, t) ==
    /\ ClipIndex(u) < ClipIndex(t)
    /\ AtGate(u)
    /\ runs[u].doer_key = runs[t].doer_key

WithinWindow(u, t) == runs[t].doer_at - runs[u].doer_at < DedupWindow

ActionEventsOf(t) == SelectSeq(q.actions, LAMBDA e : e.trace_id = t)
ActionRecsOf(t) == SelectSeq(runs[t].doer_recs, LAMBDA r : r[1] = "action")

\* C31: an action with the key of an action let through less than 20 s
\* before is not delivered: the tool is not called, and exactly one
\* ActionEvent, with status skipped and provider dedup, is recorded and
\* published; the first occurrence of a key is never suppressed.
ThmC31 ==
    \A t \in Traces :
        AtGate(t) =>
            /\ (\E u \in Traces : EarlierSameKey(u, t) /\ LetThrough(u) /\ WithinWindow(u, t)) =>
                  /\ runs[t].doer = "skipped"
                  /\ runs[t].dispatch = "none"
                  /\ \A i \in 1..Len(runs[t].doer_recs) :
                        runs[t].doer_recs[i][3].event # "dispatcher_failed"
                  /\ Len(ActionRecsOf(t)) = 1
                  /\ ActionRecsOf(t)[1][3].status = SKIPPED
                  /\ Len(ActionEventsOf(t)) = 1
                  /\ ActionEventsOf(t)[1].status = SKIPPED
                  /\ ActionEventsOf(t)[1].provider = "dedup"
            /\ (~ \E u \in Traces : EarlierSameKey(u, t)) => LetThrough(t)

\* the second action was skipped ten seconds after the first, of the same
\* key, was let through, and the third, twenty seconds after the first, was
\* let through
WitC31 ==
    /\ LetThrough("t1") /\ runs["t2"].doer = "skipped" /\ LetThrough("t3")
    /\ runs["t2"].doer_key = runs["t1"].doer_key
    /\ runs["t3"].doer_key = runs["t1"].doer_key
    /\ runs["t2"].doer_at - runs["t1"].doer_at = Ms(DedupStepMs)
    /\ runs["t3"].doer_at - runs["t1"].doer_at = DedupWindow
    /\ Len(q.actions) = 3

\* C33 (as stated): an action is skipped as a duplicate only if an action
\* of the same key was delivered (status sent) within the preceding 20 s.
CexC33 ==
    \A t \in Traces :
        runs[t].doer = "skipped" =>
            \E u \in Traces :
                /\ EarlierSameKey(u, t)
                /\ runs[u].doer = "sent"
                /\ WithinWindow(u, t)

\* C32 (as stated): whenever the Thinker suppresses a triggering observation
\* because of cooldown, a decision for the same camera+rule key was
\* published within the preceding cooldown window.
CexC32 ==
    \A t \in Traces :
        runs[t].thinker = "suppressed" =>
            \E u \in Traces :
                /\ ClipIndex(u) < ClipIndex(t)
                /\ Published(u)
                /\ runs[u].key = runs[t].key
                /\ runs[t].at - runs[u].at < Cooldown

(***************************************************************************)
(* SpecGates: streams of occurrences at the two gates, _cooldown_ok of the *)
(* Thinker and _dedup of the Doer, at instants around both windows         *)
(***************************************************************************)
\* the instants, in ms after the start, at which occurrences arrive: inside
\* and at the end of the 4 s window, and at and after the end of the 20 s one
GateInstants == <<0, 2000, 4000, 20000, 22000>>
InstantAt(i) == StartTime + Ms(GateInstants[i])

GateThinkerKeys ==
    {ThinkerKey("cam-security-1", r) : r \in {"panel_open_while_operating", "walkway_violation"}}
GateDoerKeys ==
    {DoerKey("cam-security-1", Lower(HighStr.s), a) : a \in {ALERT, STOP_LINE}}

InitGates ==
    /\ now = StartTime
    /\ inflight = <<>>
    /\ ts = [t \in Traces |-> Absent]
    /\ op = [name |-> "init"]
    /\ ret = None
    /\ events = <<>>
    /\ next_id = 1
    /\ added = <<>>
    /\ fired = [k \in WdKeys |-> 0]
    /\ next_tick = StartTime
    /\ last_tick = 0
    /\ flights = [k \in WdKeys |-> NoFlight]
    /\ q = [clips |-> <<>>, observations |-> <<>>, decisions |-> <<>>, actions |-> <<>>]
    /\ last_emit = [k \in ThinkerKeys |-> 0]
    /\ doer_last = EmptyDict
    /\ use_gemini = TRUE
    /\ gameday_force = TRUE
    /\ simulated_down = FALSE
    /\ runs = [t \in Traces |-> NoRun]
    /\ gameday_enabled = TRUE
    /\ scenario = "none"
    /\ since = StartTime
    /\ pub = [t \in Topics |-> <<>>]
    /\ got = [t \in Topics |-> <<>>]
    /\ alive = [st \in Stages |-> TRUE]
    /\ caught = [st \in Stages |-> 0]
    /\ stop_set = {}
    /\ exited = {}
    /\ thr = [th \in Threads |-> Idle]
    /\ lock = [l \in Locks |-> "free"]
    /\ hist = [thinker |-> <<>>, doer |-> <<>>]

gateRest == <<inflight, ts, auditVars, wdVars, q, use_gemini, gameday_force, simulated_down, runs,
              ctlVars, busVars, loopVars, stop_set, exited, thr, lock>>

GateAdvance ==
    /\ \E i \in 1..(Len(GateInstants) - 1) :
          /\ now = InstantAt(i)
          /\ now' = InstantAt(i + 1)
    /\ UNCHANGED <<op, ret, last_emit, doer_last, hist, gateRest>>

\* self._cooldown_ok(dedup_key) for an occurrence of one key
GateThinker ==
    /\ Len(hist.thinker) < MaxGateCalls
    /\ \E key \in GateThinkerKeys :
          /\ op' = [name |-> "_cooldown_ok", key |-> key]
          /\ ret' = Some(_cooldown_ok(last_emit, key, now))
          /\ last_emit' = LastEmitAfter(last_emit, key, now)
          /\ hist' = [hist EXCEPT !.thinker =
                         Append(@, [key |-> key, at |-> now,
                                    passed |-> _cooldown_ok(last_emit, key, now)])]
    /\ UNCHANGED <<now, doer_last, gateRest>>

\* self._dedup(dedup_key) for an occurrence of one key
GateDoer ==
    /\ Len(hist.doer) < MaxGateCalls
    /\ \E key \in GateDoerKeys :
          /\ op' = [name |-> "_dedup", key |-> key]
          /\ ret' = Some(_dedup(doer_last, key, now))
          /\ doer_last' = DoerLastAfter(doer_last, key, now)
          /\ hist' = [hist EXCEPT !.doer =
                         Append(@, [key |-> key, at |-> now,
                                    passed |-> _dedup(doer_last, key, now)])]
    /\ UNCHANGED <<now, last_emit, gateRest>>

NextGates == GateAdvance \/ GateThinker \/ GateDoer

SpecGates == InitGates /\ [][NextGates]_vars

\* in a stream h of occurrences, one passes exactly when every earlier
\* occurrence of its key that passed lies at least the window behind it
Anchored(h, window) ==
    \A i \in 1..Len(h) :
        h[i].passed <=>
            \A j \in 1..(i - 1) :
                (h[j].key = h[i].key /\ h[j].passed) => h[i].at - h[j].at >= window

\* a stream where an occurrence passed, the next of its key was suppressed,
\* and a third passed less than the window after the suppressed one
PassSkipPass(h, window) ==
    \E i, j, k \in 1..Len(h) :
        /\ i < j /\ j < k
        /\ h[i].key = h[j].key /\ h[j].key = h[k].key
        /\ h[i].passed /\ ~h[j].passed /\ h[k].passed
        /\ h[k].at - h[j].at < window

\* C34: in both gates the window is anchored on the last occurrence that
\* passed: an occurrence is suppressed exactly when an occurrence of the
\* same key passed less than the cooldown before it, whatever was
\* suppressed in between and whatever happened to other keys; so of a
\* continuous stream of one key one passes every cooldown period.
ThmC34 ==
    /\ Anchored(hist.thinker, Cooldown)
    /\ Anchored(hist.doer, DedupWindow)

\* at both gates an occurrence passed although the previous one of its key,
\* less than the window before, had been suppressed
WitC34 ==
    /\ PassSkipPass(hist.thinker, Cooldown)
    /\ PassSkipPass(hist.doer, DedupWindow)

\* C35: for every decision carrying a recommended action, the type of the
\* ActionEvent the Doer publishes and records is the canonical type of that
\* decision's action, whatever the enrichment model returns.
ThmC35 ==
    /\ \A i \in 1..Len(q.actions) :
          q.actions[i].action.type =
              _canonical_action_type(runs[q.actions[i].trace_id].decided.type)
    /\ \A t \in Traces :
          \A i \in 1..Len(runs[t].doer_recs) :
              runs[t].doer_recs[i][1] = "action" =>
                  runs[t].doer_recs[i][3].action.type = _canonical_action_type(runs[t].decided.type)

\* the enrichment model answered with a stop_line of another priority for a
\* decision to alert: the delivered ActionEvent took the priority of the
\* answer and kept the type alert
WitC35 ==
    \E i \in 1..Len(q.actions) :
        LET e == q.actions[i]
        IN  /\ runs[e.trace_id].decided.type = ALERT
            /\ e.status = SENT
            /\ e.action.type = ALERT
            /\ e.action.priority = P3
            /\ runs[e.trace_id].decided.priority # P3

\* C36 (as stated): every DecisionEvent published on the decisions topic
\* has violation = true and exactly one recommended action, whose type is
\* stop_line or alert and whose priority is P1, P2 or P3; an observation
\* that does not trigger, is suppressed, or is judged non-violating or
\* action-less publishes no decision.
CexC36 ==
    /\ \A i \in 1..Len(q.decisions) :
          /\ q.decisions[i].violation
          /\ Len(q.decisions[i].recommended_actions) = 1
          /\ q.decisions[i].recommended_actions[1].type \in {STOP_LINE, ALERT}
          /\ q.decisions[i].recommended_actions[1].priority \in {P1, P2, P3}
          /\ Published(q.decisions[i].trace_id)
    /\ \A t \in Traces :
          Published(t) =>
              /\ runs[t].decided.type \in {STOP_LINE, ALERT}
              /\ runs[t].decided.priority \in {P1, P2, P3}

(***************************************************************************)
(* SpecMilestones: the producer, the observer and the thinker mark and     *)
(* publish, statement by statement, while time passes                      *)
(***************************************************************************)
MilestoneThreads == {"producer", "observer", "thinker"}

\* the traces of the clips the producer cuts, in order
MilestoneClips == <<"t1", "t2">>

MilestoneKind(th) ==
    CASE th = "producer" -> "clip" [] th = "observer" -> "observation" [] OTHER -> "decision"
MilestoneTopic(th) ==
    CASE th = "producer" -> "clips" [] th = "observer" -> "observations" [] OTHER -> "decisions"

\* the statements that end a handler that has an event to publish, in
\* program order: state.mark, then bus.publish (and, in the thinker, the
\* e2e latency read after it)
HandlerStepsPublishFirst(th) ==
    IF th = "thinker" THEN <<"publish", "mark", "e2e">> ELSE <<"publish", "mark">>
HandlerSteps(th) ==
    IF th = "thinker" THEN <<"mark", "publish", "e2e">> ELSE <<"mark", "publish">>

msRest == <<inflight, auditVars, wdVars, last_emit, doer_last, use_gemini, gameday_force,
            simulated_down, runs, ctlVars, loopVars, stop_set, exited, lock, hist>>

MsAdvance ==
    /\ now < StartTime + MaxMilestoneTicks
    /\ now' = now + 1
    /\ UNCHANGED <<ts, op, ret, q, pub, got, thr, msRest>>

\* the producer cuts its next clip
MsClip ==
    /\ thr["producer"].pc = "idle"
    /\ CallsDone("producer") < Len(MilestoneClips)
    /\ thr' = [thr EXCEPT !["producer"] =
                  [pc |-> "run", t |-> MilestoneClips[CallsDone("producer") + 1], i |-> 1,
                   n |-> CallsDone("producer")]]
    /\ UNCHANGED <<now, ts, op, ret, q, pub, got, msRest>>

\* run() of the observer or of the thinker consumes a message; the handler
\* goes on to build its event, or ends without one (no trigger, cooldown,
\* no violation, a missing clip, an exception)
MsConsume ==
    /\ \E th \in {"observer", "thinker"}, goes_on \in BOOLEAN :
          /\ thr[th].pc = "idle"
          /\ q[ConsumesFrom(th)] # <<>>
          /\ consume(ConsumesFrom(th))
          /\ op' = [name |-> "consume", topic |-> ConsumesFrom(th)]
          /\ thr' = [thr EXCEPT ![th] =
                        IF goes_on
                        THEN [pc |-> "run", t |-> Head(q[ConsumesFrom(th)]).trace_id, i |-> 1,
                              n |-> CallsDone(th)]
                        ELSE [pc |-> "idle", n |-> CallsDone(th) + 1]]
    /\ UNCHANGED <<now, ts, pub, msRest>>

\* the next statement of a handler
MsStep ==
    /\ \E th \in MilestoneThreads :
          /\ thr[th].pc = "run"
          /\ LET step == HandlerSteps(th)[thr[th].i]
                 t == thr[th].t
             IN  /\ CASE step = "mark" ->
                            /\ mark(t, MilestoneKind(th))
                            /\ UNCHANGED <<q, pub>>
                      [] step = "publish" ->
                            /\ publish(MilestoneTopic(th), [trace_id |-> t, at |-> now])
                            /\ op' = [name |-> "publish", topic |-> MilestoneTopic(th)]
                            /\ ret' = None
                            /\ UNCHANGED ts
                      [] OTHER ->
                            /\ op' = [name |-> "e2e_decision_latency_ms", trace_id |-> t]
                            /\ ret' = e2e_decision_latency_ms(ts, t)
                            /\ UNCHANGED <<ts, q, pub>>
                 /\ thr' = [thr EXCEPT ![th] =
                               IF thr[th].i = Len(HandlerSteps(th))
                               THEN [pc |-> "idle", n |-> thr[th].n + 1]
                               ELSE [@ EXCEPT !.i = @ + 1]]
    /\ UNCHANGED <<now, got, msRest>>

NextMilestones == MsAdvance \/ MsClip \/ MsConsume \/ MsStep

SpecMilestones == InitMarks /\ [][NextMilestones]_vars

\* the stamp of a milestone of a trace, None when the trace has no entry
StampOf(t, kind) ==
    IF ts[t] = Absent THEN None
    ELSE IF kind = "clip" THEN ts[t].clip_ts
    ELSE IF kind = "observation" THEN ts[t].obs_ts
    ELSE ts[t].dec_ts

MarkedBy(m, kind) == StampOf(m.trace_id, kind) # None /\ StampOf(m.trace_id, kind).val <= m.at

\* C37: every published ClipEvent, ObservationEvent and DecisionEvent was
\* published with its milestone already marked; so for every published
\* observation clip mark <= observation mark, for every published decision
\* observation mark <= decision mark, and the e2e decision latency the
\* Thinker reads after publishing is available.
ThmC37 ==
    /\ \A i \in 1..Len(pub.clips) : MarkedBy(pub.clips[i], "clip")
    /\ \A i \in 1..Len(pub.observations) :
          /\ MarkedBy(pub.observations[i], "observation")
          /\ StampOf(pub.observations[i].trace_id, "clip") # None
          /\ StampOf(pub.observations[i].trace_id, "clip").val
                <= StampOf(pub.observations[i].trace_id, "observation").val
    /\ \A i \in 1..Len(pub.decisions) :
          /\ MarkedBy(pub.decisions[i], "decision")
          /\ StampOf(pub.decisions[i].trace_id, "clip") # None
          /\ StampOf(pub.decisions[i].trace_id, "observation") # None
          /\ StampOf(pub.decisions[i].trace_id, "observation").val
                <= StampOf(pub.decisions[i].trace_id, "decision").val
          /\ e2e_decision_latency_ms(ts, pub.decisions[i].trace_id) # None
          /\ e2e_decision_latency_ms(ts, pub.decisions[i].trace_id).val >= 0
    /\ op.name = "e2e_decision_latency_ms" => ret # None

\* the Thinker published the decision of a trace whose three milestones
\* have increasing stamps, and read an e2e latency of at least 1 ms, while
\* the second clip was on its way
WitC37 ==
    /\ op.name = "e2e_decision_latency_ms"
    /\ ret # None
    /\ ret.val >= 1
    /\ StampOf(op.trace_id, "clip").val < StampOf(op.trace_id, "observation").val
    /\ StampOf(op.trace_id, "observation").val < StampOf(op.trace_id, "decision").val
    /\ Len(pub.clips) = 2
    /\ Len(pub.decisions) = 1

(***************************************************************************)
(* SpecProducer: start() and stop() calls on the ClipProducer and the      *)
(* _run threads they start, statement by statement                         *)
(***************************************************************************)
\* self._running, kept in the record of the producer; hist lists the _run
\* threads started so far
ProducerRunning == IF thr["producer"] = Idle THEN FALSE ELSE thr["producer"]._running
SetRunning(b) == [thr EXCEPT !["producer"] = [pc |-> "idle", _running |-> b]]

prRest == <<now, inflight, ts, ret, auditVars, wdVars, last_emit, doer_last, use_gemini,
            gameday_force, simulated_down, runs, ctlVars, got, loopVars, exited, lock>>

\* start(): returns when _running is set; else clears the stop event,
\* starts the janitor thread unless it is alive, and starts a _run thread
PrStart ==
    /\ Len(hist) < MaxStarts
    /\ IF ProducerRunning
       THEN /\ op' = [name |-> "start", started |-> FALSE]
            /\ UNCHANGED <<stop_set, thr, hist>>
       ELSE /\ op' = [name |-> "start", started |-> TRUE]
            /\ stop_set' = stop_set \ {"producer"}
            /\ thr' = [thr EXCEPT !["janitor"] = [pc |-> "run"]]
            /\ hist' = Append(hist, [pc |-> "started", n |-> 0])
    /\ UNCHANGED <<q, pub, prRest>>

\* stop(): self._stop.set()
PrStop ==
    /\ op' = [name |-> "stop"]
    /\ stop_set' = stop_set \cup {"producer"}
    /\ UNCHANGED <<thr, hist, q, pub, prRest>>

\* _run, line 108: self._running = True
PrRunBegin ==
    /\ \E i \in 1..Len(hist) :
          /\ hist[i].pc = "started"
          /\ hist' = [hist EXCEPT ![i].pc = "loop"]
    /\ thr' = SetRunning(TRUE)
    /\ UNCHANGED <<op, stop_set, q, pub, prRest>>

\* _run, lines 113-115: the next clip of the video, if there is one, and
\* the test of the stop event
PrRunClip ==
    /\ \E i \in 1..Len(hist) :
          /\ hist[i].pc = "loop"
          /\ hist' = [hist EXCEPT ![i].pc =
                         IF hist[i].n = MaxLoopClips \/ "producer" \in stop_set
                         THEN "finally" ELSE "clip"]
    /\ UNCHANGED <<op, stop_set, thr, q, pub, prRest>>

\* _run, lines 117-161: the clip is spooled, marked and published
PrRunPublish ==
    /\ \E i \in 1..Len(hist) :
          /\ hist[i].pc = "clip"
          /\ publish("clips", [loop |-> i, clip_index |-> hist[i].n])
          /\ hist' = [hist EXCEPT ![i].pc = "loop", ![i].n = @ + 1]
    /\ UNCHANGED <<op, stop_set, thr, prRest>>

\* _run, lines 178-180: finally: self._running = False
PrRunFinally ==
    /\ \E i \in 1..Len(hist) :
          /\ hist[i].pc = "finally"
          /\ hist' = [hist EXCEPT ![i].pc = "done"]
    /\ thr' = SetRunning(FALSE)
    /\ UNCHANGED <<op, stop_set, q, pub, prRest>>

\* _janitor_loop leaves its loop once the stop event is set
PrJanitorExit ==
    /\ thr["janitor"] # Idle
    /\ "producer" \in stop_set
    /\ thr' = [thr EXCEPT !["janitor"] = Idle]
    /\ UNCHANGED <<op, stop_set, hist, q, pub, prRest>>

NextProducer ==
    PrStart \/ PrStop \/ PrRunBegin \/ PrRunClip \/ PrRunPublish \/ PrRunFinally \/ PrJanitorExit

SpecProducer == InitMarks /\ [][NextProducer]_vars

\* the _run threads that are inside their ingestion loop
InLoop == {i \in 1..Len(hist) : hist[i].pc \in {"loop", "clip"}}

\* C38 (as stated): for any interleaving of start() and stop() calls, at
\* most one _run loop executes at any time.
CexC38 == Cardinality(InLoop) <= 1

(***************************************************************************)
(* SpecScenario: set_scenario and reset calls of several request threads,  *)
(* statement by statement                                                  *)
(***************************************************************************)
scRest == <<now, inflight, ts, ret, wdVars, pipeVars, gameday_enabled, busVars, loopVars,
            stop_set, exited, thr, lock>>

\* a thread enters set_scenario(s) (reset() is set_scenario("none")): the
\* validity test; hist lists the calls made so far
ScCall ==
    /\ Len(hist) < MaxScenarioCalls
    /\ \E s \in ScenarioInputs :
          /\ hist' = Append(hist, [pc |-> "store", scenario |-> ValidOrNone(s), rec |-> 0])
          /\ op' = [name |-> "set_scenario", arg |-> s]
    /\ UNCHANGED <<scenario, since, auditVars, scRest>>

\* set_scenario, the with block: the scenario and its time are stored
ScStore ==
    /\ \E i \in 1..Len(hist) :
          /\ hist[i].pc = "store"
          /\ scenario' = hist[i].scenario
          /\ since' = now
          /\ hist' = [hist EXCEPT ![i].pc = "add"]
    /\ UNCHANGED <<op, auditVars, scRest>>

\* set_scenario, after the with block: self.audit.add(...)
ScAdd ==
    /\ \E i \in 1..Len(hist) :
          /\ hist[i].pc = "add"
          /\ add("health", "gameday",
                 [event |-> "scenario_set", status |-> EmptyStr, action |-> NoAction,
                  scenario |-> hist[i].scenario])
          /\ hist' = [hist EXCEPT ![i].pc = "done", ![i].rec = Len(added) + 1]
    /\ UNCHANGED <<op, scenario, since, scRest>>

NextScenario == ScCall \/ ScStore \/ ScAdd

SpecScenario == InitMarks /\ [][NextScenario]_vars

Returned == {i \in 1..Len(hist) : hist[i].pc = "done"}

\* C39 (as stated): each set_scenario call appends exactly one scenario_set
\* record naming the validated scenario it stored, and once no call is in
\* progress the most recent scenario_set record names the active scenario.
CexC39 ==
    /\ Len(added) = Cardinality(Returned)
    /\ \A i \in Returned :
          /\ added[hist[i].rec].payload.event = "scenario_set"
          /\ added[hist[i].rec].payload.scenario = hist[i].scenario
          /\ hist[i].scenario \in VALID_SCENARIOS
    /\ (hist # <<>> /\ Returned = 1..Len(hist)) =>
          added[Len(added)].payload.scenario = scenario

(***************************************************************************)
(* The slow-stage scenario: ObserverAgent.handle_clip against the watchdog *)
(***************************************************************************)
SlowKey == StageKey("t1", "observer")

InitSlow ==
    /\ now = StartTime
    /\ inflight = <<>>
    /\ ts = [t \in Traces |-> Absent]
    /\ op = [name |-> "init"]
    /\ ret = None
    /\ events = <<>>
    /\ next_id = 1
    /\ added = <<>>
    /\ fired = [k \in {SlowKey} |-> 0]
    /\ next_tick = StartTime
    /\ last_tick = 0
    /\ flights = [k \in WdKeys |-> NoFlight]
    /\ q = [clips |-> <<>>, observations |-> <<>>, decisions |-> <<>>, actions |-> <<>>]
    /\ last_emit = [k \in ThinkerKeys |-> 0]
    /\ doer_last = EmptyDict
    /\ use_gemini = TRUE
    /\ gameday_force \in BOOLEAN
    /\ simulated_down = FALSE
    /\ runs = [t \in Traces |-> NoRun]
    /\ gameday_enabled \in BOOLEAN
    /\ scenario \in {"none", "long_running_observer"}
    /\ since = StartTime
    /\ pub = [t \in Topics |-> <<>>]
    /\ got = [t \in Topics |-> <<>>]
    /\ alive = [st \in Stages |-> TRUE]
    /\ caught = [st \in Stages |-> 0]
    /\ InitThreads

slRest == <<ts, flights, pipeVars, ctlVars, busVars, loopVars, stop_set, exited, lock, hist>>

\* the artificial delay of handle_clip, in ms: time.sleep((slo_observer_ms + 700) / 1000.0)
\* under the scenario with force, no sleep otherwise
ObserverDelaySloOnly ==
    IF active("long_running_observer") /\ gameday_force THEN slo_observer_ms ELSE 0
ObserverDelayMs ==
    IF active("long_running_observer") /\ gameday_force THEN slo_observer_ms + 700 ELSE 0

Sleeping == thr["observer"].pc = "sleep"

\* time passes, up to the next instant at which a sleeper is due; the
\* handler makes no blocking call between begin_stage and the file test,
\* nor between the end of its work and end_stage
SlAdvance ==
    /\ now < next_tick
    /\ thr["observer"].pc \notin {"begun", "finally"}
    /\ now < StartTime + Ms(SlowMaxMs)
    /\ \E due \in {IF Sleeping /\ thr["observer"].wake > now
                   THEN thr["observer"].wake ELSE next_tick} :
          now' = Min(Min(now + Ms(WdStepMs), next_tick), due)
    /\ UNCHANGED <<stateVars, auditVars, wdVars, thr, slRest>>

\* handle_clip up to the try block: begin_stage and the stage_start record
SlBegin ==
    /\ thr["observer"].pc = "idle"
    /\ now <= StartTime + Ms(SlowBeginWindowMs)
    /\ begin_stage("t1", "observer", ClipIndex("t1"))
    /\ thr' = [thr EXCEPT !["observer"] =
                  [pc |-> "begun", start |-> now, exists |-> FALSE, delay |-> 0,
                   wake |-> now, checked_at |-> 0, work_at |-> 0, end |-> 0]]
    /\ add_all(<<Rec("stage", "t1", "stage_start")>>)
    /\ UNCHANGED <<now, wdVars, slRest>>

\* the os.path.exists test (a missing file is recorded and ends the
\* handler), then the scenario test and the start of the sleep
SlCheck ==
    /\ thr["observer"].pc = "begun"
    /\ \E exists \in BOOLEAN :
          /\ add_all(IF exists THEN <<>> ELSE <<Rec("tool_error", "t1", "clip_missing")>>)
          /\ thr' = [thr EXCEPT !["observer"] =
                       IF ~exists
                       THEN [@ EXCEPT !.pc = "finally"]
                       ELSE IF ObserverDelayMs > 0
                       THEN [@ EXCEPT !.pc = "sleep", !.exists = TRUE,
                                      !.checked_at = now,
                                      !.delay = ObserverDelayMs,
                                      !.wake = now + Ms(ObserverDelayMs)]
                       ELSE [@ EXCEPT !.pc = "work", !.exists = TRUE,
                                      !.checked_at = now, !.work_at = now]]
    /\ op' = [name |-> "exists"]
    /\ UNCHANGED <<now, inflight, ret, wdVars, slRest>>

\* time.sleep returns, no earlier than asked
SlWake ==
    /\ Sleeping
    /\ now >= thr["observer"].wake
    /\ thr' = [thr EXCEPT !["observer"] = [@ EXCEPT !.pc = "work", !.work_at = now]]
    /\ op' = [name |-> "sleep"]
    /\ UNCHANGED <<now, inflight, ret, auditVars, wdVars, slRest>>

\* the rest of the try block: the model call and the publish, of any duration
SlWork ==
    /\ thr["observer"].pc = "work"
    /\ thr' = [thr EXCEPT !["observer"] = [@ EXCEPT !.pc = "finally"]]
    /\ op' = [name |-> "observe"]
    /\ UNCHANGED <<now, inflight, ret, auditVars, wdVars, slRest>>

\* the finally block: end_stage and the stage_end record
SlEnd ==
    /\ thr["observer"].pc = "finally"
    /\ end_stage(SlowKey)
    /\ thr' = [thr EXCEPT !["observer"] = [@ EXCEPT !.pc = "ended", !.end = now]]
    /\ add_all(<<Rec("stage", "t1", "stage_end")>>)
    /\ UNCHANGED <<now, wdVars, slRest>>

\* one iteration of Watchdog.run: _tick, then time.sleep(0.25)
SlTick ==
    /\ now = next_tick
    /\ now < StartTime + Ms(SlowMaxMs)
    /\ fired' = TickFired(inflight, now, fired)
    /\ add_all(TickRecords(inflight, now, fired))
    /\ last_tick' = now
    /\ \E jitter \in {0, WdJitterMs} : next_tick' = now + Ms(PollMs) + Ms(jitter)
    /\ UNCHANGED <<now, stateVars, flights, thr, slRest>>

NextSlow == SlAdvance \/ SlBegin \/ SlCheck \/ SlWake \/ SlWork \/ SlEnd \/ SlTick
SpecSlow == InitSlow /\ [][NextSlow]_vars

\* the stage_timeout records of the observer stage of t1
SlowBreaches ==
    {i \in 1..Len(added) :
        /\ added[i].kind = "stage_timeout"
        /\ added[i].trace_id = "t1"
        /\ added[i].payload.stage = "observer"}

SlowActive == scenario = "long_running_observer" /\ gameday_enabled /\ gameday_force

\* C40: under long_running_observer with force, a clip whose file exists
\* keeps the observer stage in flight for at least slo_observer_ms + 700 ms
\* and the polling watchdog has recorded a stage_timeout breach of that
\* stage by the time it ends; without the scenario the handler goes from
\* the file test to its work at the same instant, with no delay.
ThmC40 ==
    /\ (thr["observer"].pc = "ended" /\ thr["observer"].exists /\ SlowActive) =>
          /\ thr["observer"].end - thr["observer"].start >= Ms(slo_observer_ms + 700)
          /\ \E i \in SlowBreaches :
                /\ added[i].ts <= thr["observer"].end
                /\ added[i].payload.slo_ms = slo_observer_ms
    /\ (thr["observer"].pc \in {"work", "finally", "ended"}
          /\ thr["observer"].exists /\ ~SlowActive) =>
          /\ thr["observer"].delay = 0
          /\ thr["observer"].work_at = thr["observer"].checked_at

\* the stage ended right when the sleep was over, with one breach recorded
WitC40 ==
    /\ thr["observer"].pc = "ended"
    /\ thr["observer"].exists
    /\ SlowActive
    /\ thr["observer"].end - thr["observer"].start = Ms(slo_observer_ms + 700)
    /\ Cardinality(SlowBreaches) = 1

====
